---- MODULE Spec2Model ----
(***************************************************************************)
(* A model of pyomo/pysp/smps/smpsutils.py: the stage classifiers          *)
(* (map_variable_stages, map_constraint_stages), the per-scenario SMPS     *)
(* conversion (_convert_external_setup) and convert_embedded.              *)
(***************************************************************************)
EXTENDS Integers, Sequences, FiniteSets, TLC

\* ------------------------------------------------------------------ bounds
NumVars == 2
MaxBody == 2

\* ------------------------------------------------------------- the objects
Vars == 1..NumVars
Cons == {"c1", "c2"}
\* blocks in SortComponents order (the model itself, then its sub-block)
Blocks == <<"b1", "b2">>
BlockOf(con) == IF con = "c1" THEN "b1" ELSE "b2"
\* the constraints of a block in SortComponents order
ConsOf(b) == IF b = "b1" THEN <<"c1">> ELSE <<"c2">>

None == "None"
NoSymbol == "NoSymbol"

\* a scenario-tree id of each node set, and one that is in no set
ScenarioTreeIds == {"id_standard", "id_derived", "id_leaf", "id_unknown"}
firststage_standard_variables == {"id_standard"}
firststage_derived_variables == {"id_derived"}
secondstage_variables == {"id_leaf"}

\* the symbols the writer can give a variable, in the order sorted() gives
\* strings (upper case before lower case)
SymbolOrder == <<"ONE_VAR_CONSTANT", "RHS", "x1", "x2", "x3", "x4">>
SymbolRank(symbol) == CHOOSE i \in 1..Len(SymbolOrder) : SymbolOrder[i] = symbol

\* ------------------------------------------------------------------ helpers
Range(f) == {f[x] : x \in DOMAIN f}

\* sorted(): the ascending sequence of a set of symbols
RECURSIVE SortedSeq(_)
SortedSeq(S) ==
    IF S = {} THEN <<>>
    ELSE LET least == CHOOSE x \in S :
                         \A y \in S : SymbolRank(x) <= SymbolRank(y)
         IN <<least>> \o SortedSeq(S \ {least})

\* sequences without repetition, of length at most n, over S
RECURSIVE DistinctSeqs(_, _)
DistinctSeqs(S, n) ==
    IF n = 0 THEN {<<>>}
    ELSE LET shorter == DistinctSeqs(S, n - 1)
         IN shorter \cup
            UNION {{Append(q, x) : x \in S \ Range(q)} :
                       q \in {r \in shorter : Len(r) = n - 1}}


\* ------------------------------------------------------------------- state
VARIABLES
    pc,      \* the position of the running call
    args,    \* the arguments of the running call
    ret,     \* what the call returned or raised
    model,   \* the mutable parts of the model the call works on
    loc,     \* the local variables of the running conversion
    files    \* the files written so far, in the order of writing

vars == <<pc, args, ret, model, loc, files>>

\* a call that converts nothing leaves these alone
NoConversion == model = <<>> /\ loc = <<>> /\ files = <<>>

\* ------------------------------------------------------ map_variable_stages
\* a slip: the enforce_derived_nonanticipativity flag is not consulted
VarStageOf_flag_ignored(scenario_tree_id, enforce_derived_nonanticipativity) ==
    IF scenario_tree_id \in firststage_standard_variables THEN "first"
    ELSE IF scenario_tree_id \in firststage_derived_variables THEN "first"
    ELSE IF \/ scenario_tree_id \in secondstage_variables
            \/ scenario_tree_id = None THEN "second"
    ELSE "assert"

\* the if/elif chain that classifies one variable by its scenario-tree id
VarStageOf(scenario_tree_id, enforce_derived_nonanticipativity) ==
    IF scenario_tree_id \in firststage_standard_variables THEN "first"
    ELSE IF enforce_derived_nonanticipativity
            /\ scenario_tree_id \in firststage_derived_variables THEN "first"
    ELSE IF \/ scenario_tree_id \in firststage_derived_variables
            \/ scenario_tree_id \in secondstage_variables
            \/ scenario_tree_id = None THEN "second"
    ELSE "assert"

\* the variables the loop does not skip: those with a symbol
InSymbolMap(symbolmap_byObject) ==
    {v \in DOMAIN symbolmap_byObject : symbolmap_byObject[v] # NoSymbol}

\* a slip: the third branch is an "if", not an "elif", so that a derived variable
\* stored as first-stage is stored as second-stage too
StageList_if_chain(stage, symbolmap_byObject, scenariotree_byObject, enforce) ==
    LET members ==
            {v \in InSymbolMap(symbolmap_byObject) \cap Vars :
                IF stage = "first"
                THEN VarStageOf(scenariotree_byObject[v], enforce) = "first"
                ELSE \/ VarStageOf(scenariotree_byObject[v], enforce) = "second"
                     \/ scenariotree_byObject[v]
                            \in firststage_derived_variables}
        symbols == SortedSeq({symbolmap_byObject[v] : v \in members})
        holder(s) == CHOOSE v \in members : symbolmap_byObject[v] = s
    IN [i \in 1..Len(symbols) |->
           [symbol |-> symbols[i],
            var |-> holder(symbols[i]),
            scenario_tree_id |-> scenariotree_byObject[holder(symbols[i])]]]

\* FirstStageVars / SecondStageVars: symbol -> (var, scenario_tree_id), as the
\* list of (symbol, var, scenario_tree_id) in sorted symbol order
StageList(stage, symbolmap_byObject, scenariotree_byObject, enforce) ==
    LET members == {v \in InSymbolMap(symbolmap_byObject) \cap Vars :
                       VarStageOf(scenariotree_byObject[v], enforce) = stage}
        symbols == SortedSeq({symbolmap_byObject[v] : v \in members})
        \* a dict keeps the last variable stored under a symbol
        holder(s) == CHOOSE v \in members :
                        /\ symbolmap_byObject[v] = s
                        /\ \A w \in members :
                              symbolmap_byObject[w] = s => w <= v
    IN [i \in 1..Len(symbols) |->
           [symbol |-> symbols[i],
            var |-> holder(symbols[i]),
            scenario_tree_id |-> scenariotree_byObject[holder(symbols[i])]]]

map_variable_stages(symbolmap_byObject, scenariotree_byObject, enforce) ==
    IF \E v \in InSymbolMap(symbolmap_byObject) \cap Vars :
           VarStageOf(scenariotree_byObject[v], enforce) = "assert"
    THEN [err |-> "AssertionError", first |-> <<>>, second |-> <<>>]
    ELSE [err |-> "ok",
          first |-> StageList("first", symbolmap_byObject,
                              scenariotree_byObject, enforce),
          second |-> StageList("second", symbolmap_byObject,
                               scenariotree_byObject, enforce)]

\* --- the call of map_variable_stages on every symbol map and scenario tree
VarSymbols == {SymbolOrder[i + 2] : i \in 1..NumVars}

\* a symbol map gives different objects different symbols
SymbolMaps(objs, symbols) ==
    {f \in [objs -> symbols \cup {NoSymbol}] :
        \A a, b \in objs : (a # b /\ f[a] # NoSymbol) => f[a] # f[b]}

InitVars ==
    /\ pc = "map_variable_stages"
    /\ args \in [symbolmap_byObject : SymbolMaps(Vars, VarSymbols),
                 scenariotree_byObject : [Vars -> ScenarioTreeIds \cup {None}],
                 enforce_derived_nonanticipativity : BOOLEAN]
    /\ ret = [err |-> "pending"]
    /\ NoConversion

CallMapVariableStages ==
    /\ pc = "map_variable_stages"
    /\ ret' = map_variable_stages(args.symbolmap_byObject,
                                  args.scenariotree_byObject,
                                  args.enforce_derived_nonanticipativity)
    /\ pc' = IF ret'.err = "ok" THEN "returned" ELSE "raised"
    /\ UNCHANGED <<args, model, loc, files>>

NextVars == CallMapVariableStages

SpecVars == InitVars /\ [][NextVars]_vars


\* --- what the claims say of map_variable_stages
Positions(list, v) == {i \in DOMAIN list : list[i].var = v}
Occurrences(v) ==
    Cardinality(Positions(ret.first, v)) + Cardinality(Positions(ret.second, v))
SymbolsOf(list) == {list[i].symbol : i \in DOMAIN list}
NoSymbolTwice ==
    /\ Cardinality(SymbolsOf(ret.first)) = Len(ret.first)
    /\ Cardinality(SymbolsOf(ret.second)) = Len(ret.second)
    /\ SymbolsOf(ret.first) \cap SymbolsOf(ret.second) = {}
VarsDone == pc \in {"returned", "raised"} /\ "symbolmap_byObject" \in DOMAIN args
HasSymbol(v) == args.symbolmap_byObject[v] # NoSymbol
\* the condition the claim gives for a first-stage variable
SaidFirstStage(v) ==
    \/ args.scenariotree_byObject[v] \in firststage_standard_variables
    \/ /\ args.enforce_derived_nonanticipativity
       /\ args.scenariotree_byObject[v] \in firststage_derived_variables
Unrecognized(v) ==
    /\ args.scenariotree_byObject[v] # None
    /\ args.scenariotree_byObject[v] \notin
          (firststage_standard_variables \cup firststage_derived_variables
             \cup secondstage_variables)

\* C5 as stated: whenever map_variable_stages returns a stage map, every
\* variable of the model is in exactly one of the two lists, once, and no
\* symbol is listed twice (a variable without a symbol makes the call fail).
C5_AsStated ==
    (VarsDone /\ pc = "returned") =>
        /\ \A v \in Vars : Occurrences(v) = 1
        /\ NoSymbolTwice

\* C5 amended: whenever map_variable_stages returns a stage map, every variable
\* that has a symbol in the symbol map is in exactly one of the two lists,
\* once, a variable without a symbol is skipped (it is in neither list and
\* nothing is raised for it), and no symbol is listed twice.
C5_Partition ==
    (VarsDone /\ pc = "returned") =>
        /\ \A v \in Vars : Occurrences(v) = IF HasSymbol(v) THEN 1 ELSE 0
        /\ NoSymbolTwice

C5_Witness ==
    /\ VarsDone /\ pc = "returned"
    /\ \E v \in Vars : ~HasSymbol(v) /\ Occurrences(v) = 0
    /\ \E v \in Vars : HasSymbol(v) /\ Positions(ret.second, v) # {}

\* C6 as stated: a variable with a symbol is first-stage iff its id is a
\* standard root id, or a derived root id with the flag set; every other
\* variable with a symbol is second-stage, an unrecognized id included.
C6_AsStated ==
    VarsDone =>
        \A v \in Vars : HasSymbol(v) =>
            /\ SaidFirstStage(v) <=> Positions(ret.first, v) # {}
            /\ ~SaidFirstStage(v) <=> Positions(ret.second, v) # {}

\* C6 amended: map_variable_stages fails on its assertion, returning no map,
\* exactly when some variable with a symbol has an id that is in none of the
\* three node sets; when it returns, a variable with a symbol is first-stage
\* iff its id is a standard root id, or a derived root id with the flag set,
\* and second-stage otherwise (a derived id without the flag, a leaf id, no id).
C6_Classification ==
    VarsDone =>
        /\ pc = "raised" <=>
              \E v \in Vars : HasSymbol(v) /\ ~SaidFirstStage(v) /\ Unrecognized(v)
        /\ pc = "returned" =>
              \A v \in Vars : HasSymbol(v) =>
                 /\ SaidFirstStage(v) <=> Positions(ret.first, v) # {}
                 /\ ~SaidFirstStage(v) <=> Positions(ret.second, v) # {}

C6_Witness ==
    /\ VarsDone /\ pc = "returned"
    /\ ~args.enforce_derived_nonanticipativity
    /\ \E v, w \in Vars :
          /\ HasSymbol(v) /\ HasSymbol(w)
          /\ args.scenariotree_byObject[v] \in firststage_derived_variables
          /\ args.scenariotree_byObject[w] = None
          /\ Positions(ret.second, v) # {} /\ Positions(ret.second, w) # {}


\* ---------------------------------------------------- map_constraint_stages
\* the prefixes the LP/MPS writer puts before a constraint's symbol, in the
\* order sorted() gives the aliases
PrefixOrder == <<"c_e_", "c_l_", "c_u_", "r_l_", "r_u_">>
PrefixRank(prefix) == CHOOSE i \in 1..Len(PrefixOrder) : PrefixOrder[i] = prefix
ConSymbolOrder == <<"RHS", "c1", "c2">>
ConSymbolRank(symbol) ==
    CHOOSE i \in 1..Len(ConSymbolOrder) : ConSymbolOrder[i] = symbol

\* alias < alias, as strings: the prefix, then the symbol
AliasLess(a, b) ==
    \/ PrefixRank(a.prefix) < PrefixRank(b.prefix)
    \/ /\ a.prefix = b.prefix
       /\ ConSymbolRank(a.symbol) < ConSymbolRank(b.symbol)

\* list < list, as Python compares lists
RECURSIVE AliasListLess(_, _)
AliasListLess(p, q) ==
    IF p = <<>> THEN q # <<>>
    ELSE IF q = <<>> THEN FALSE
    ELSE IF AliasLess(Head(p), Head(q)) THEN TRUE
    ELSE IF AliasLess(Head(q), Head(p)) THEN FALSE
    ELSE AliasListLess(Tail(p), Tail(q))

\* _aliases.sort()
RECURSIVE SortAliases(_)
SortAliases(S) ==
    IF S = {} THEN <<>>
    ELSE LET least == CHOOSE a \in S : \A b \in S \ {a} : AliasLess(a, b)
         IN <<least>> \o SortAliases(S \ {least})

\* StageToConstraintMap[key].sort(key=operator.itemgetter(0))
RECURSIVE SortByAliases(_)
SortByAliases(S) ==
    IF S = {} THEN <<>>
    ELSE LET least == CHOOSE e \in S :
                         \A f \in S \ {e} : ~AliasListLess(f.aliases, e.aliases)
         IN <<least>> \o SortByAliases(S \ {least})

\* reverse_alias[symbol]: the sorted aliases of the object that has the symbol
reverse_alias(symbol_map, symbol) ==
    SortAliases({a \in symbol_map.aliases : a.symbol = symbol})

\* a slip: the "if not var.fixed" test is missing
BodyStage_fixed_counted(body, i, fixed, firststage_variable_ids, secondstage_variable_ids) ==
    IF \E k \in i..Len(body) :
          /\ body[k] \in secondstage_variable_ids
          /\ \A j \in i..(k - 1) : body[j] \in firststage_variable_ids
    THEN "second"
    ELSE IF \A k \in i..Len(body) : body[k] \in firststage_variable_ids
    THEN "first"
    ELSE "assert"

\* the loop over the variables of con.body: the stage of the constraint, or
\* the failed assertion
RECURSIVE BodyStage(_, _, _, _, _)
BodyStage(body, i, fixed, firststage_variable_ids, secondstage_variable_ids) ==
    IF i > Len(body) THEN "first"
    ELSE IF fixed[body[i]]
         THEN BodyStage(body, i + 1, fixed,
                        firststage_variable_ids, secondstage_variable_ids)
    ELSE IF body[i] \in secondstage_variable_ids THEN "second"
    ELSE IF body[i] \in firststage_variable_ids
         THEN BodyStage(body, i + 1, fixed,
                        firststage_variable_ids, secondstage_variable_ids)
    ELSE "assert"

\* a slip: the stage is taken from the variables of the body alone
ConstraintStage_body_only(con, reference_model, stochastic_constraint_ids, firststage_variable_ids, secondstage_variable_ids) ==
    BodyStage(reference_model.cons[con].body, 1, reference_model.fixed,
              firststage_variable_ids, secondstage_variable_ids)

ConstraintStage(con, reference_model, stochastic_constraint_ids, firststage_variable_ids, secondstage_variable_ids) ==
    IF con \in stochastic_constraint_ids THEN "second"
    ELSE BodyStage(reference_model.cons[con].body, 1, reference_model.fixed,
                   firststage_variable_ids, secondstage_variable_ids)

SOSName(b) == IF b = "b1" THEN "sos1" ELSE "sos2"

\* a slip: the loop over the SOS constraints of the block is missing
BlockError_sos_accepted(block) ==
    IF ~block.has_canonical_repn THEN "ValueError" ELSE "ok"

\* what the head of the loop body raises for an active block
BlockError(block) ==
    IF block.sos THEN "TypeError"
    ELSE IF ~block.has_canonical_repn THEN "ValueError"
    ELSE "ok"

NoStageMap(err, name) ==
    [err |-> err, name |-> name, first |-> <<>>, second |-> <<>>]

\* the loop over the active blocks and their active constraints
map_constraint_stages(reference_model, symbol_map, stochastic_constraint_ids, firststage_variable_ids, secondstage_variable_ids) ==
    LET RECURSIVE ScanCons(_, _, _)
        ScanCons(cs, j, acc) ==
            IF j > Len(cs) THEN acc
            ELSE IF ~reference_model.cons[cs[j]].active
                 THEN ScanCons(cs, j + 1, acc)
            ELSE LET con == cs[j]
                     aliases == reverse_alias(symbol_map,
                                              symbol_map.byObject[con])
                     stage == ConstraintStage(con, reference_model,
                                              stochastic_constraint_ids,
                                              firststage_variable_ids,
                                              secondstage_variable_ids)
                     entry == [aliases |-> aliases, con |-> con]
                 IN IF stage = "assert"
                    THEN [acc EXCEPT !.err = "AssertionError", !.name = con]
                    ELSE IF stage = "second"
                    THEN ScanCons(cs, j + 1,
                            [acc EXCEPT !.second = @ \cup {entry}])
                    ELSE ScanCons(cs, j + 1,
                            [acc EXCEPT !.first = @ \cup {entry}])
        RECURSIVE ScanBlocks(_, _)
        ScanBlocks(i, acc) ==
            IF i > Len(Blocks) \/ acc.err # "ok" THEN acc
            ELSE LET block == reference_model.blocks[Blocks[i]]
                 IN IF ~block.active THEN ScanBlocks(i + 1, acc)
                    ELSE IF BlockError(block) = "TypeError"
                    THEN [acc EXCEPT !.err = "TypeError",
                                     !.name = SOSName(Blocks[i])]
                    ELSE IF BlockError(block) = "ValueError"
                    THEN [acc EXCEPT !.err = "ValueError",
                                     !.name = Blocks[i]]
                    ELSE ScanBlocks(i + 1, ScanCons(ConsOf(Blocks[i]), 1, acc))
        scanned == ScanBlocks(1, [err |-> "ok", name |-> None,
                                  first |-> {}, second |-> {}])
    IN IF scanned.err # "ok" THEN NoStageMap(scanned.err, scanned.name)
       ELSE [err |-> "ok", name |-> None,
             first |-> SortByAliases(scanned.first),
             second |-> SortByAliases(scanned.second)]


\* --- the call of map_constraint_stages on every small model
\* the symbol map the writer returns for constraints of the given kinds
AliasesOf(symbol, kind) ==
    IF kind = "eq" THEN {[prefix |-> "c_e_", symbol |-> symbol]}
    ELSE IF kind = "ge" THEN {[prefix |-> "c_l_", symbol |-> symbol]}
    ELSE IF kind = "le" THEN {[prefix |-> "c_u_", symbol |-> symbol]}
    ELSE {[prefix |-> "r_l_", symbol |-> symbol],
          [prefix |-> "r_u_", symbol |-> symbol]}

ConSymbolMap(kinds) ==
    [byObject |-> [c \in Cons |-> c],
     aliases |-> UNION {AliasesOf(c, kinds[c]) : c \in Cons}]

Bodies == DistinctSeqs(Vars, MaxBody)

\* what a constraint can be: what an inactive constraint holds is not read
ConChoices(activities) ==
    {[active |-> TRUE, body |-> body] : body \in Bodies}
       \cup {[active |-> FALSE, body |-> <<>>] : x \in activities \ {TRUE}}

InitCons ==
    /\ pc = "map_constraint_stages"
    /\ \E first \in SUBSET Vars, fixed1, sos1, canon1, active2, sos2 \in BOOLEAN,
          c1 \in ConChoices(BOOLEAN), c2 \in ConChoices({TRUE}),
          stochastic \in SUBSET Cons :
          \E second \in SUBSET (Vars \ first) :
             \* the model itself is an active block; the variables being
             \* interchangeable, the fixed one, if any, is the first
             args = [reference_model |->
                        [blocks |-> [b \in {"b1", "b2"} |->
                            IF b = "b1"
                            THEN [active |-> TRUE, has_canonical_repn |-> canon1,
                                  sos |-> sos1]
                            ELSE [active |-> active2, has_canonical_repn |-> TRUE,
                                  sos |-> sos2]],
                         cons |-> [c \in Cons |-> IF c = "c1" THEN c1 ELSE c2],
                         fixed |-> [v \in Vars |-> fixed1 /\ v = 1]],
                     symbol_map |-> ConSymbolMap([c \in Cons |->
                                      IF c = "c1" THEN "range" ELSE "eq"]),
                     stochastic_constraint_ids |-> stochastic,
                     firststage_variable_ids |-> first,
                     secondstage_variable_ids |-> second]
    /\ ret = [err |-> "pending"]
    /\ NoConversion

CallMapConstraintStages ==
    /\ pc = "map_constraint_stages"
    /\ ret' = map_constraint_stages(args.reference_model, args.symbol_map,
                                    args.stochastic_constraint_ids,
                                    args.firststage_variable_ids,
                                    args.secondstage_variable_ids)
    /\ pc' = IF ret'.err = "ok" THEN "returned" ELSE "raised"
    /\ UNCHANGED <<args, model, loc, files>>

NextCons == CallMapConstraintStages

SpecCons == InitCons /\ [][NextCons]_vars


\* --- what the claims say of map_constraint_stages
ConsDone == pc \in {"returned", "raised"} /\ "reference_model" \in DOMAIN args
ConPositions(list, con) == {i \in DOMAIN list : list[i].con = con}
Visited(con) ==
    /\ args.reference_model.cons[con].active
    /\ args.reference_model.blocks[BlockOf(con)].active
\* the condition the claim gives for a second-stage constraint
SaidSecondStage(con) ==
    \/ con \in args.stochastic_constraint_ids
    \/ \E i \in DOMAIN args.reference_model.cons[con].body :
          LET var == args.reference_model.cons[con].body[i]
          IN /\ ~args.reference_model.fixed[var]
             /\ var \in args.secondstage_variable_ids

\* C7: whenever map_constraint_stages returns a stage map, an active constraint
\* of an active block is in the second-stage list iff it is a stochastic
\* constraint or some non-fixed variable of its body is second-stage, and in
\* the first-stage list otherwise; it is in exactly one list, once, and a
\* constraint that is not active, or in a block that is not, is in neither.
C7_ConstraintStage ==
    (ConsDone /\ pc = "returned") =>
        \A con \in Cons :
           /\ Visited(con) =>
                /\ Cardinality(ConPositions(ret.second, con))
                      = IF SaidSecondStage(con) THEN 1 ELSE 0
                /\ Cardinality(ConPositions(ret.first, con))
                      = IF SaidSecondStage(con) THEN 0 ELSE 1
           /\ ~Visited(con) =>
                ConPositions(ret.first, con) \cup ConPositions(ret.second, con) = {}

\* a fixed second-stage variable in the body of a first-stage constraint
C7_Witness ==
    /\ ConsDone /\ pc = "returned"
    /\ \E con \in Cons :
          /\ Visited(con)
          /\ ConPositions(ret.first, con) # {}
          /\ \E i \in DOMAIN args.reference_model.cons[con].body :
                LET var == args.reference_model.cons[con].body[i]
                IN args.reference_model.fixed[var]
                   /\ var \in args.secondstage_variable_ids
    /\ \E con \in Cons : Visited(con) /\ ConPositions(ret.second, con) # {}

SOSBlocks ==
    {i \in DOMAIN Blocks : /\ args.reference_model.blocks[Blocks[i]].active
                           /\ args.reference_model.blocks[Blocks[i]].sos}
FirstSOSBlock == CHOOSE i \in SOSBlocks : \A j \in SOSBlocks : i <= j
\* a constraint whose loop over the body reaches a non-fixed variable that is
\* in neither stage set before it reaches a second-stage one
FailsAssertion(con) ==
    /\ Visited(con)
    /\ con \notin args.stochastic_constraint_ids
    /\ \E i \in DOMAIN args.reference_model.cons[con].body :
          LET body == args.reference_model.cons[con].body
              free(k) == ~args.reference_model.fixed[body[k]]
          IN /\ free(i)
             /\ body[i] \notin args.firststage_variable_ids
             /\ body[i] \notin args.secondstage_variable_ids
             /\ \A k \in 1..(i - 1) :
                   free(k) => body[k] \in args.firststage_variable_ids
\* an active block without SOS constraint that makes the call fail
BlockFails(i) ==
    /\ args.reference_model.blocks[Blocks[i]].active
    /\ \/ ~args.reference_model.blocks[Blocks[i]].has_canonical_repn
       \/ \E k \in DOMAIN ConsOf(Blocks[i]) : FailsAssertion(ConsOf(Blocks[i])[k])

\* C8 as stated: if an active block holds an active SOS constraint, the call
\* raises the error that names an SOS constraint and returns no stage map.
C8_AsStated ==
    (ConsDone /\ SOSBlocks # {}) =>
        /\ pc = "raised"
        /\ ret.err = "TypeError"
        /\ ret.name \in {SOSName(Blocks[i]) : i \in SOSBlocks}

\* C8 amended: if an active block holds an active SOS constraint, the call
\* returns no stage map and raises an error: the TypeError that names the SOS
\* constraint of the first such block in block order, unless a block before
\* it already made the call fail (no _canonical_repn, or a failed assertion
\* on a variable that is in neither stage set).
C8_SOSRejected ==
    (ConsDone /\ SOSBlocks # {}) =>
        /\ pc = "raised"
        /\ ret.first = <<>> /\ ret.second = <<>>
        /\ IF \E j \in 1..(FirstSOSBlock - 1) : BlockFails(j)
           THEN ret.err \in {"ValueError", "AssertionError"}
           ELSE ret.err = "TypeError" /\ ret.name = SOSName(Blocks[FirstSOSBlock])

\* the SOS constraint is in the second block, after a block that was
\* classified without error
C8_Witness ==
    /\ ConsDone /\ pc = "raised"
    /\ SOSBlocks = {2}
    /\ args.reference_model.cons["c1"].active
    /\ ret.err = "TypeError" /\ ret.name = SOSName("b2")


\* ================================================= _convert_external_setup
_deterministic_check_value == -99999999

AttrNames == {"_gen_obj_canonical_repn", "_gen_con_canonical_repn", "_canonical_repn"}
BlockNames == Range(Blocks)
Absent == "absent"

\* a ComponentMap / dict with one more entry
Put(map, key, val) ==
    [k \in DOMAIN map \cup {key} |-> IF k = key THEN val ELSE map[k]]

\* --- the scenario's model
\* a bound is <<>> (None) or <<number>>
LowerOf(con, kind) ==
    IF kind \in {"eq", "ge", "range"} THEN <<IF con = "c1" THEN 10 ELSE 30>>
    ELSE <<>>
UpperOf(con, kind) ==
    IF kind = "eq" THEN LowerOf(con, kind)
    ELSE IF kind \in {"le", "range"} THEN <<IF con = "c1" THEN 20 ELSE 40>>
    ELSE <<>>

\* the body of a constraint of the scenario's model: c2 holds every variable
BodyOf(con) == IF con = "c1" THEN args.body1 ELSE [i \in 1..NumVars |-> i]

\* the first variable is a first-stage variable, the others are second-stage
ScenarioTreeIdOf(var) == IF var = 1 THEN "id_standard" ELSE "id_leaf"

\* what generate_canonical_repn gives for a constraint or the objective
GeneratedRepn(component) ==
    LET variables == IF component = "objective" THEN [i \in 1..NumVars |-> i]
                     ELSE BodyOf(component)
    IN [is_linear |-> component \notin args.nonlinear,
        constant |-> <<>>,
        variables |-> variables,
        linear |-> [i \in DOMAIN variables |-> 1 + variables[i]]]

\* the label the writer gives a variable: a symbol of its own, or with
\* symbolic labels the name the user gave the variable
VarLabel(v) ==
    IF args.mode = "external" /\ args.labels # "names" /\ v = 2
    THEN args.labels ELSE SymbolOrder[v + 2]

\* the symbol map a write of the model returns
WriterSymbolMap ==
    [byObject |-> [c \in Cons \cup {"objective"} |-> c],
     byObjectVars |-> [v \in Vars |-> VarLabel(v)],
     aliases |-> UNION {AliasesOf(c, args.kinds[c]) : c \in Cons}]

\* another symbol map the writer may return for the same model: the labels
\* of the first two variables, and of the two constraints, change places
RenamedSymbolMap ==
    LET byObject == [c \in Cons \cup {"objective"} |->
                        IF c = "c1" THEN "c2" ELSE IF c = "c2" THEN "c1" ELSE c]
    IN [byObject |-> byObject,
        byObjectVars |-> [v \in Vars |->
                            VarLabel(IF v = 1 THEN 2 ELSE IF v = 2 THEN 1 ELSE v)],
        aliases |-> UNION {AliasesOf(byObject[c], args.kinds[c]) : c \in Cons}]

\* the locals of _convert_external_setup before anything is assigned
NoLocals ==
    [cached_attrs |-> [b \in BlockNames |-> <<>>],
     stochastic_rhs_entries |-> <<>>,
     stochastic_matrix_entries |-> <<>>,
     stochastic_constraint_ids |-> {},
     symbol_map |-> <<>>,
     secondstage_constraint_ids |-> {},
     column_order |-> <<>>,
     row_order |-> <<>>,
     col |-> <<>>,
     row |-> <<>>,
     tim |-> <<>>,
     counts |-> <<>>,
     constraint_symbols |-> <<>>,
     modified_constraint_lb |-> <<>>,
     modified_constraint_ub |-> <<>>,
     i |-> 1,
     sto |-> <<>>,
     struct |-> <<>>,
     stochastic_rhs_count |-> 0,
     stochastic_matrix_count |-> 0,
     stochastic_cost_count |-> 0,
     exc |-> "none",
     exc_names |-> <<>>]

\* --- lines 236-261: cache and delete the block attributes
CachedAttrs(block_attrs) ==
    [name \in {n \in AttrNames : block_attrs[n] # Absent} |-> block_attrs[name]]

CacheAttrs ==
    /\ pc = "_convert_external_setup"
    /\ loc' = [loc EXCEPT !.cached_attrs =
                  [b \in BlockNames |-> CachedAttrs(model.attrs[b])]]
    /\ model' = [model EXCEPT !.attrs =
                    [b \in BlockNames |-> [n \in AttrNames |-> Absent]]]
    /\ pc' = "locate_annotations"
    /\ UNCHANGED <<args, ret, files>>

\* --- lines 296-394: the annotations of the model
all_constraints == <<"c1", "c2">>

\* a constraint of a deactivated block: neither all_constraints nor the stage
\* maps hold it, the explicit entries of an annotation may
InactiveBlockCon == "c3"

\* a slip: the test for no annotation at all is missing
AnnotationError_none_accepted(rhs, matrix, objective, varbounds) ==
    IF rhs.decl = "explicit" /\ rhs.entries = <<>> THEN "RuntimeError: no active Constraint"
    ELSE IF matrix.decl = "explicit" /\ matrix.entries = <<>> THEN "RuntimeError: no active Constraint"
    ELSE IF varbounds THEN "ValueError: stochastic variable bounds"
    ELSE "none"

\* a slip: the test for a stochastic variable bounds annotation is missing
AnnotationError_varbounds_accepted(rhs, matrix, objective, varbounds) ==
    IF rhs.decl = "explicit" /\ rhs.entries = <<>> THEN "RuntimeError: no active Constraint"
    ELSE IF matrix.decl = "explicit" /\ matrix.entries = <<>> THEN "RuntimeError: no active Constraint"
    ELSE IF rhs.decl = "none" /\ matrix.decl = "none" /\ objective.decl = "none"
    THEN "RuntimeError: No stochastic annotations found"
    ELSE "none"

\* the first error the checks of the annotations raise, in their order
AnnotationError(rhs, matrix, objective, varbounds) ==
    IF rhs.decl = "explicit" /\ rhs.entries = <<>> THEN "RuntimeError: no active Constraint"
    ELSE IF matrix.decl = "explicit" /\ matrix.entries = <<>> THEN "RuntimeError: no active Constraint"
    ELSE IF varbounds THEN "ValueError: stochastic variable bounds"
    ELSE IF rhs.decl = "none" /\ matrix.decl = "none" /\ objective.decl = "none"
    THEN "RuntimeError: No stochastic annotations found"
    ELSE "none"

\* expand_entries(), or the default given to every active constraint
EntriesOf(annotation) ==
    IF annotation.decl = "none" THEN <<>>
    ELSE IF annotation.decl = "explicit" THEN annotation.entries
    ELSE [i \in DOMAIN all_constraints |->
             [con |-> all_constraints[i], val |-> annotation.default]]

LocateAnnotations ==
    /\ pc = "locate_annotations"
    /\ LET err == AnnotationError(args.rhs, args.matrix, args.objective, args.varbounds)
           rhs_entries == EntriesOf(args.rhs)
           matrix_entries == EntriesOf(args.matrix)
       IN IF err # "none"
          THEN /\ loc' = [loc EXCEPT !.exc = err]
               /\ pc' = "finally"
          ELSE /\ loc' = [loc EXCEPT
                    !.stochastic_rhs_entries = rhs_entries,
                    !.stochastic_matrix_entries = matrix_entries,
                    !.stochastic_constraint_ids =
                        {rhs_entries[i].con : i \in DOMAIN rhs_entries}
                          \cup {matrix_entries[i].con : i \in DOMAIN matrix_entries}]
               /\ pc' = "write_setup"
    /\ UNCHANGED <<args, ret, model, files>>

\* --- a call of the LP/MPS writer
\* the blocks' _canonical_repn after a write: generated where it is missing
\* and its generation is not disabled
AttrsAfterWrite(attrs) ==
    [b \in BlockNames |->
        IF attrs[b]["_canonical_repn"] = Absent
        THEN [attrs[b] EXCEPT !["_canonical_repn"] = "generated"]
        ELSE attrs[b]]

\* the writer fails (the file cannot be written): the exception propagates
WriterRaises ==
    /\ pc \in {"write_setup", "write_ordered", "write_det"}
    /\ loc' = [loc EXCEPT !.exc = "IOError"]
    /\ pc' = "finally"
    /\ UNCHANGED <<args, ret, model, files>>

\* --- lines 396-411: the first write, for the symbol map
WriteSetup ==
    /\ pc = "write_setup"
    /\ files' = Append(files, "setup")
    /\ model' = [model EXCEPT
          !.attrs = AttrsAfterWrite(@),
          !.repn = [c \in Cons \cup {"objective"} |-> GeneratedRepn(c)]]
    /\ loc' = [loc EXCEPT !.symbol_map = WriterSymbolMap]
    /\ pc' = "map_stages"
    /\ UNCHANGED <<args, ret>>

\* --- lines 413-449: the stage maps of the first symbol map
ReferenceModel ==
    [blocks |-> [b \in BlockNames |->
                    [active |-> TRUE,
                     has_canonical_repn |-> model.attrs[b]["_canonical_repn"] # Absent,
                     sos |-> FALSE]],
     cons |-> [c \in Cons |-> [active |-> TRUE, body |-> BodyOf(c)]],
     fixed |-> [v \in Vars |-> FALSE]]

VariableStages ==
    map_variable_stages(loc.symbol_map.byObjectVars,
                        [v \in Vars |-> ScenarioTreeIdOf(v)],
                        args.enforce_derived_nonanticipativity)

StageIds(list) == {list[i].var : i \in DOMAIN list}

ConstraintStages ==
    map_constraint_stages(ReferenceModel, loc.symbol_map,
                          loc.stochastic_constraint_ids,
                          StageIds(VariableStages.first),
                          StageIds(VariableStages.second))

\* block._gen_obj_canonical_repn = False; block._gen_con_canonical_repn = False
GenerationDisabled(attrs) ==
    [b \in BlockNames |->
        [attrs[b] EXCEPT !["_gen_obj_canonical_repn"] = "False",
                         !["_gen_con_canonical_repn"] = "False"]]

MapStages ==
    /\ pc = "map_stages"
    /\ IF VariableStages.err # "ok" \/ ConstraintStages.err # "ok"
       THEN /\ loc' = [loc EXCEPT !.exc =
                          IF VariableStages.err # "ok" THEN VariableStages.err
                          ELSE ConstraintStages.err]
            /\ pc' = "finally"
            /\ UNCHANGED model
       ELSE /\ loc' = [loc EXCEPT !.secondstage_constraint_ids =
                  {ConstraintStages.second[i].con : i \in DOMAIN ConstraintStages.second}]
            /\ model' = [model EXCEPT !.attrs = GenerationDisabled(@)]
            /\ pc' = "write_ordered"
    /\ UNCHANGED <<args, ret, files>>


\* --- lines 461-521: the column and row orders, and the ordered write
\* column_order: the rank of each variable, first stage before second stage
ColumnOrder(stages) ==
    LET columns == stages.first \o stages.second
    IN [v \in StageIds(columns) |->
           (CHOOSE i \in DOMAIN columns : columns[i].var = v) - 1]

\* row_order: the rank of each constraint, first stage before second stage
RowOrder(stages) ==
    LET rows == stages.first \o stages.second
    IN [c \in {rows[i].con : i \in DOMAIN rows} |->
           (CHOOSE i \in DOMAIN rows : rows[i].con = c) - 1]

WriteOrdered ==
    /\ pc = "write_ordered"
    /\ IF \E i \in DOMAIN (VariableStages.first \o VariableStages.second) :
             (VariableStages.first \o VariableStages.second)[i].symbol = "RHS"
       THEN /\ loc' = [loc EXCEPT !.exc = "RuntimeError: symbol RHS"]
            /\ pc' = "finally"
            /\ UNCHANGED <<files, model>>
       ELSE /\ files' = Append(files, "core")
            /\ model' = [model EXCEPT !.attrs = AttrsAfterWrite(@)]
            /\ \E symbol_map \in {WriterSymbolMap, RenamedSymbolMap} :
                  loc' = [loc EXCEPT !.column_order = ColumnOrder(VariableStages),
                                     !.row_order = RowOrder(ConstraintStages),
                                     !.symbol_map = symbol_map]
            /\ pc' = "write_structure"
    /\ UNCHANGED <<args, ret>>

\* --- lines 523-685: the stage maps of the second symbol map; .col, .row, .tim
\* the implicit .tim file takes the first entry of three lists
TimError ==
    IF /\ args.file_format = "mps"
       /\ \/ VariableStages.first = <<>>
          \/ ConstraintStages.second = <<>>
          \/ VariableStages.second = <<>>
    THEN "IndexError" ELSE "none"

\* the symbols of a list of (symbols, con) pairs, pair after pair
RECURSIVE RowSymbols(_)
RowSymbols(pairs) ==
    IF pairs = <<>> THEN <<>> ELSE Head(pairs).aliases \o RowSymbols(Tail(pairs))

\* a line of .row or .tim that is a symbol of no constraint
RowLine(symbol) == [prefix |-> "", symbol |-> symbol]

\* a .col file without the line of the synthetic variable
ColFile_constant_missing ==
    [i \in DOMAIN VariableStages.first |-> VariableStages.first[i].symbol]
      \o [i \in DOMAIN VariableStages.second |-> VariableStages.second[i].symbol]

\* lines 549-562: the lines of the .col file
ColFile ==
    [i \in DOMAIN VariableStages.first |-> VariableStages.first[i].symbol]
      \o [i \in DOMAIN VariableStages.second |-> VariableStages.second[i].symbol]
      \o <<"ONE_VAR_CONSTANT">>

\* a .row file that lists the second-stage rows before the first-stage rows
RowFile_second_stage_first ==
    <<RowLine(loc.symbol_map.byObject["objective"])>>
      \o RowSymbols(ConstraintStages.second)
      \o RowSymbols(ConstraintStages.first)
      \o <<[prefix |-> "c_e_", symbol |-> "ONE_VAR_CONSTANT"]>>

\* lines 570-591: the lines of the .row file
RowFile ==
    <<RowLine(loc.symbol_map.byObject["objective"])>>
      \o RowSymbols(ConstraintStages.first)
      \o RowSymbols(ConstraintStages.second)
      \o <<[prefix |-> "c_e_", symbol |-> "ONE_VAR_CONSTANT"]>>

\* lines 599-624: the TIME1 and TIME2 lines of the implicit .tim file
TimFile ==
    <<[col |-> VariableStages.first[1].symbol,
       row |-> RowLine(loc.symbol_map.byObject["objective"]),
       period |-> "TIME1"],
      [col |-> VariableStages.second[1].symbol,
       row |-> SortAliases(Range(ConstraintStages.second[1].aliases))[1],
       period |-> "TIME2"]>>

\* lines 549-591: the counts, one per line written, the synthetic lines
\* counted with the second stage and the objective line not counted
StageCounts ==
    [firststage_variable_count |-> Len(VariableStages.first),
     secondstage_variable_count |-> Len(VariableStages.second) + 1,
     firststage_constraint_count |-> Len(RowSymbols(ConstraintStages.first)),
     secondstage_constraint_count |-> Len(RowSymbols(ConstraintStages.second)) + 1]

WriteStructure ==
    /\ pc = "write_structure"
    /\ IF TimError # "none"
       THEN /\ files' = files \o <<"col", "row", "tim">>
            /\ loc' = [loc EXCEPT !.exc = TimError,
                                  !.col = ColFile,
                                  !.row = RowFile,
                                  !.counts = StageCounts]
            /\ pc' = "finally"
       ELSE /\ files' = files \o <<"col", "row", "tim", "sto.struct", "sto">>
            /\ loc' = [loc EXCEPT
                  !.col = ColFile,
                  !.row = RowFile,
                  !.tim = TimFile,
                  !.counts = StageCounts,
                  !.constraint_symbols =
                      LET entries == ConstraintStages.first \o ConstraintStages.second
                      IN [c \in {entries[i].con : i \in DOMAIN entries} |->
                            (CHOOSE e \in Range(entries) : e.con = c).aliases],
                  !.i = 1]
            /\ pc' = "stochastic_rhs"
    /\ UNCHANGED <<args, ret, model>>

\* --- lines 692-792: one entry of the stochastic rhs annotation
\* value(con.lower) - value(body_constant)
RhsValue(bound, body_constant) ==
    bound[1] - (IF body_constant = <<>> THEN 0 ELSE body_constant[1])

\* a slip: the line of .sto.struct always names the column RHS
StructLine_rhs_only(col, row) == [col |-> "RHS", row |-> row]

\* f_coords.write: the line of .sto.struct that goes with a record of .sto
StructLine(col, row) == [col |-> col, row |-> row]

\* the branch of the loop over the symbols of the constraint for one symbol:
\* st holds the bounds, the two maps of modified bounds and the .sto lines
RhsLabel(st, con, label, include_bound, body_constant) ==
    LET sto_lower == Append(st.sto, [col |-> "RHS", row |-> label,
                                     val |-> RhsValue(st.lower[con], body_constant)])
        sto_upper == Append(st.sto, [col |-> "RHS", row |-> label,
                                     val |-> RhsValue(st.upper[con], body_constant)])
        lower_done == [st EXCEPT
                         !.count = @ + 1,
                         !.sto = sto_lower,
                         !.struct = Append(@, StructLine("RHS", label)),
                         !.modified_constraint_lb = Put(@, con, st.lower[con]),
                         !.lower[con] = <<_deterministic_check_value>>]
        upper_done == [st EXCEPT
                         !.count = @ + 1,
                         !.sto = sto_upper,
                         !.struct = Append(@, StructLine("RHS", label)),
                         !.modified_constraint_ub = Put(@, con, st.upper[con]),
                         !.upper[con] = <<_deterministic_check_value>>]
    IN IF label.prefix \in {"c_e_", "c_l_"}
       THEN IF ~include_bound[1] THEN [st EXCEPT !.err = "AssertionError"]
            ELSE IF label.prefix = "c_e_"
            THEN [lower_done EXCEPT
                     !.modified_constraint_ub = Put(@, con, st.upper[con]),
                     !.upper[con] = <<_deterministic_check_value>>]
            ELSE lower_done
       ELSE IF label.prefix = "r_l_"
       THEN IF include_bound[1] THEN lower_done ELSE st
       ELSE IF label.prefix = "c_u_"
       THEN IF ~include_bound[2] THEN [st EXCEPT !.err = "AssertionError"]
            ELSE upper_done
       ELSE IF include_bound[2] THEN upper_done ELSE st

\* the loop over the symbols of the constraint, until an assertion fails
RECURSIVE RhsLabels(_, _, _, _, _, _)
RhsLabels(st, con, symbols, k, include_bound, body_constant) ==
    IF k > Len(symbols) \/ st.err # "none" THEN st
    ELSE RhsLabels(RhsLabel(st, con, symbols[k], include_bound, body_constant),
                   con, symbols, k + 1, include_bound, body_constant)

\* a slip: the test against secondstage_constraint_ids is missing, and the
\* look-up in canonical_repn_cache fails for a constraint of no active block
EntryError_stage_unchecked(annotation, con) ==
    IF con \notin DOMAIN model.repn THEN "KeyError"
    ELSE IF ~model.repn[con].is_linear THEN "RuntimeError: not linear"
    ELSE "none"

\* what the checks at the head of an entry raise
EntryError(annotation, con) ==
    IF annotation.decl = "explicit" /\ con \notin loc.secondstage_constraint_ids
    THEN "RuntimeError: not second-stage"
    ELSE IF ~model.repn[con].is_linear THEN "RuntimeError: not linear"
    ELSE "none"

StochasticRhsEntry ==
    /\ pc = "stochastic_rhs"
    /\ loc.i <= Len(loc.stochastic_rhs_entries)
    /\ LET con == loc.stochastic_rhs_entries[loc.i].con
           include_bound == loc.stochastic_rhs_entries[loc.i].val
           st == RhsLabels([lower |-> model.lower, upper |-> model.upper,
                            modified_constraint_lb |-> loc.modified_constraint_lb,
                            modified_constraint_ub |-> loc.modified_constraint_ub,
                            sto |-> loc.sto, struct |-> loc.struct,
                            count |-> loc.stochastic_rhs_count, err |-> "none"],
                           con, loc.constraint_symbols[con], 1, include_bound,
                           model.repn[con].constant)
       IN IF EntryError(args.rhs, con) # "none"
          THEN /\ loc' = [loc EXCEPT
                     !.exc = EntryError(args.rhs, con),
                     !.exc_names = <<con, "StochasticConstraintBoundsAnnotation">>]
               /\ pc' = "finally"
               /\ UNCHANGED model
          ELSE /\ model' = [model EXCEPT !.repn[con].constant = <<0>>,
                                         !.lower = st.lower,
                                         !.upper = st.upper]
               /\ loc' = [loc EXCEPT
                     !.modified_constraint_lb = st.modified_constraint_lb,
                     !.modified_constraint_ub = st.modified_constraint_ub,
                     !.sto = st.sto,
                     !.struct = st.struct,
                     !.stochastic_rhs_count = st.count,
                     !.i = @ + 1,
                     !.exc = st.err]
               /\ pc' = IF st.err # "none" THEN "finally" ELSE "stochastic_rhs"
    /\ UNCHANGED <<args, ret, files>>

StochasticRhsEnd ==
    /\ pc = "stochastic_rhs"
    /\ loc.i > Len(loc.stochastic_rhs_entries)
    /\ loc' = [loc EXCEPT !.i = 1]
    /\ pc' = "stochastic_matrix"
    /\ UNCHANGED <<args, ret, model, files>>


\* --- lines 799-863: one entry of the stochastic matrix annotation
\* var_list.sort(key=lambda _v: column_order[_v])
RECURSIVE SortByColumn(_, _)
SortByColumn(var_list, column_order) ==
    IF var_list = <<>> THEN <<>>
    ELSE LET k == CHOOSE i \in DOMAIN var_list :
                     \A j \in DOMAIN var_list :
                         \/ column_order[var_list[i]] < column_order[var_list[j]]
                         \/ column_order[var_list[i]] = column_order[var_list[j]] /\ i <= j
         IN <<var_list[k]>> \o
            SortByColumn([i \in 1..(Len(var_list) - 1) |->
                             IF i < k THEN var_list[i] ELSE var_list[i + 1]],
                         column_order)

\* the first position of var in the variables of a representation, 0 for none
IndexOf(variables, var) ==
    IF \E i \in DOMAIN variables : variables[i] = var
    THEN CHOOSE i \in DOMAIN variables :
             /\ variables[i] = var
             /\ \A j \in DOMAIN variables : variables[j] = var => i <= j
    ELSE 0

\* a slip: the coefficients of the entry are written to the .sto file and
\* left in the representation as they are
RECURSIVE StochasticCoefs_coefs_kept(_, _, _, _, _, _)
StochasticCoefs_coefs_kept(st, repn, var_list, k, rows, check_fixed) ==
    IF k > Len(var_list) \/ st.err # "none" THEN st
    ELSE LET var == var_list[k]
             i == IndexOf(repn.variables, var)
             lines == [r \in DOMAIN rows |->
                          [col |-> loc.symbol_map.byObjectVars[var],
                           row |-> rows[r], val |-> repn.linear[i]]]
         IN StochasticCoefs_coefs_kept(
               IF check_fixed /\ ReferenceModel.fixed[var]
               THEN [st EXCEPT !.err = "AssertionError"]
               ELSE IF i = 0
               THEN [st EXCEPT !.err = "RuntimeError: does not appear"]
               ELSE [st EXCEPT !.count = @ + Len(lines),
                               !.sto = @ \o lines,
                               !.struct = @ \o [r \in DOMAIN rows |->
                                   StructLine(loc.symbol_map.byObjectVars[var], rows[r])]],
               repn, var_list, k + 1, rows, check_fixed)

\* the loop over the variables of an entry: st holds the new coefficients and
\* the .sto lines; rows are the labels the coefficient is written under
RECURSIVE StochasticCoefs(_, _, _, _, _, _)
StochasticCoefs(st, repn, var_list, k, rows, check_fixed) ==
    IF k > Len(var_list) \/ st.err # "none" THEN st
    ELSE LET var == var_list[k]
             i == IndexOf(repn.variables, var)
             lines == [r \in DOMAIN rows |->
                          [col |-> loc.symbol_map.byObjectVars[var],
                           row |-> rows[r], val |-> repn.linear[i]]]
         IN StochasticCoefs(
               IF check_fixed /\ ReferenceModel.fixed[var]
               THEN [st EXCEPT !.err = "AssertionError"]
               ELSE IF i = 0
               THEN [st EXCEPT !.err = "RuntimeError: does not appear"]
               ELSE [st EXCEPT !.new_coefs[i] = _deterministic_check_value,
                               !.count = @ + Len(lines),
                               !.sto = @ \o lines,
                               !.struct = @ \o [r \in DOMAIN rows |->
                                   StructLine(loc.symbol_map.byObjectVars[var], rows[r])]],
               repn, var_list, k + 1, rows, check_fixed)

StochasticMatrixEntry ==
    /\ pc = "stochastic_matrix"
    /\ loc.i <= Len(loc.stochastic_matrix_entries)
    /\ LET con == loc.stochastic_matrix_entries[loc.i].con
           val == loc.stochastic_matrix_entries[loc.i].val
           constraint_repn == model.repn[con]
           var_list == IF val.all THEN constraint_repn.variables ELSE val.vars
           st == StochasticCoefs([new_coefs |-> constraint_repn.linear,
                                  sto |-> loc.sto, struct |-> loc.struct,
                                  count |-> loc.stochastic_matrix_count,
                                  err |-> "none"],
                                 constraint_repn,
                                 SortByColumn(var_list, loc.column_order), 1,
                                 loc.constraint_symbols[con], TRUE)
           err == IF EntryError(args.matrix, con) # "none"
                  THEN EntryError(args.matrix, con)
                  ELSE IF constraint_repn.variables = <<>> \/ var_list = <<>>
                  THEN "AssertionError"
                  ELSE st.err
       IN IF err # "none"
          THEN /\ loc' = [loc EXCEPT
                     !.exc = err,
                     !.exc_names = <<con, "StochasticConstraintBodyAnnotation">>]
               /\ pc' = "finally"
               /\ UNCHANGED model
          ELSE /\ model' = [model EXCEPT !.repn[con].linear = st.new_coefs]
               /\ loc' = [loc EXCEPT !.sto = st.sto,
                                     !.struct = st.struct,
                                     !.stochastic_matrix_count = st.count,
                                     !.i = @ + 1]
               /\ pc' = "stochastic_matrix"
    /\ UNCHANGED <<args, ret, files>>

StochasticMatrixEnd ==
    /\ pc = "stochastic_matrix"
    /\ loc.i > Len(loc.stochastic_matrix_entries)
    /\ pc' = "stochastic_objective"
    /\ UNCHANGED <<args, ret, model, loc, files>>

\* --- lines 870-947: the stochastic objective annotation
StochasticObjective ==
    /\ pc = "stochastic_objective"
    /\ LET annotation == args.objective
           objective_repn == model.repn["objective"]
           val == IF annotation.decl = "explicit" /\ annotation.entries # <<>>
                  THEN annotation.entries[1].val ELSE annotation.default
           objective_variables == IF val.all THEN objective_repn.variables ELSE val.vars
           st == StochasticCoefs([new_coefs |-> objective_repn.linear,
                                  sto |-> loc.sto, struct |-> loc.struct,
                                  count |-> loc.stochastic_cost_count,
                                  err |-> "none"],
                                 objective_repn,
                                 SortByColumn(objective_variables, loc.column_order), 1,
                                 <<RowLine(loc.symbol_map.byObject["objective"])>>, FALSE)
           err == IF annotation.decl = "explicit" /\ annotation.entries = <<>>
                  THEN "RuntimeError: no active Objective"
                  ELSE IF ~objective_repn.is_linear THEN "RuntimeError: not linear"
                  ELSE IF objective_variables = <<>> /\ ~val.include_constant
                  THEN "AssertionError"
                  ELSE st.err
       IN IF annotation.decl = "none"
          THEN /\ pc' = "write_det"
               /\ UNCHANGED <<model, loc>>
          ELSE IF err # "none"
          THEN /\ loc' = [loc EXCEPT !.exc = err]
               /\ pc' = "finally"
               /\ UNCHANGED model
          ELSE /\ model' = [model EXCEPT
                     !.repn["objective"].linear = st.new_coefs,
                     !.repn["objective"].constant =
                         IF val.include_constant THEN <<0>> ELSE @]
               /\ loc' = [loc EXCEPT
                     !.sto =
                        IF val.include_constant
                        THEN Append(st.sto,
                                    [col |-> "ONE_VAR_CONSTANT",
                                     row |-> RowLine(loc.symbol_map.byObject["objective"]),
                                     val |-> IF objective_repn.constant = <<>> THEN 0
                                             ELSE objective_repn.constant[1]])
                        ELSE st.sto,
                     !.struct =
                        IF val.include_constant
                        THEN Append(st.struct,
                                    StructLine("ONE_VAR_CONSTANT",
                                        RowLine(loc.symbol_map.byObject["objective"])))
                        ELSE st.struct,
                     !.stochastic_cost_count =
                        IF val.include_constant THEN st.count + 1 ELSE st.count]
               /\ pc' = "write_det"
    /\ UNCHANGED <<args, ret, files>>

\* --- lines 953-964: the deterministic part is written to its own file
WriteDet ==
    /\ pc = "write_det"
    /\ files' = Append(files, "det")
    /\ model' = [model EXCEPT !.attrs = AttrsAfterWrite(@)]
    /\ pc' = "reset_bounds"
    /\ UNCHANGED <<args, ret, loc>>

\* --- lines 966-970: reset bounds on any constraints that were modified
\* a slip: the bounds are left as the conversion set them
RestoredBounds_kept(bounds, modified) == bounds

RestoredBounds(bounds, modified) ==
    [con \in DOMAIN bounds |->
        IF con \in DOMAIN modified THEN modified[con] ELSE bounds[con]]

ResetBounds ==
    /\ pc = "reset_bounds"
    /\ model' = [model EXCEPT
          !.lower = RestoredBounds(@, loc.modified_constraint_lb),
          !.upper = RestoredBounds(@, loc.modified_constraint_ub)]
    /\ pc' = "finally"
    /\ UNCHANGED <<args, ret, loc, files>>

\* --- lines 262-273: the finally clause puts the cached attributes back
RestoredAttrs(attrs, cached_attrs) ==
    [b \in BlockNames |-> [name \in AttrNames |->
        IF name \in DOMAIN cached_attrs[b] THEN cached_attrs[b][name]
        ELSE attrs[b][name]]]

Finally ==
    /\ pc = "finally"
    /\ model' = [model EXCEPT !.attrs = RestoredAttrs(@, loc.cached_attrs)]
    /\ ret' = [err |-> loc.exc]
    /\ pc' = IF loc.exc = "none" THEN "returned" ELSE "raised"
    /\ UNCHANGED <<args, loc, files>>


\* --- the scenario models _convert_external_setup is called with
NoAttrs == [name \in AttrNames |-> Absent]

\* the attributes a block may hold before the call
AttrProfiles ==
    {NoAttrs,
     [NoAttrs EXCEPT !["_canonical_repn"] = "original"],
     [name \in AttrNames |-> IF name = "_canonical_repn" THEN "original" ELSE "True"]}

\* include_bound True is <<TRUE, TRUE>>
RhsAnnotations ==
    {[decl |-> "none", entries |-> <<>>, default |-> <<TRUE, TRUE>>]}
      \cup {[decl |-> "default", entries |-> <<>>, default |-> d] :
               d \in {<<TRUE, TRUE>>, <<TRUE, FALSE>>, <<FALSE, TRUE>>}}
      \cup {[decl |-> "explicit",
             entries |-> [i \in DOMAIN cons |-> [con |-> cons[i], val |-> <<TRUE, TRUE>>]],
             default |-> <<TRUE, TRUE>>] :
               cons \in {<<>>, <<"c1">>, <<"c2">>, <<"c1", "c2">>,
                         <<"c2", InactiveBlockCon>>}}

\* a variable list of None is all |-> TRUE
MatrixAnnotations ==
    {[decl |-> d, entries |-> <<>>, default |-> [all |-> TRUE, vars |-> <<>>]] :
        d \in {"none", "default", "explicit"}}
      \cup {[decl |-> "explicit",
             entries |-> <<[con |-> "c1", val |-> [all |-> FALSE, vars |-> <<2>>]]>>,
             default |-> [all |-> TRUE, vars |-> <<>>]],
            [decl |-> "explicit",
             entries |-> <<[con |-> "c2", val |-> [all |-> TRUE, vars |-> <<>>]]>>,
             default |-> [all |-> TRUE, vars |-> <<>>]],
            [decl |-> "explicit",
             entries |-> <<[con |-> InactiveBlockCon,
                            val |-> [all |-> TRUE, vars |-> <<>>]]>>,
             default |-> [all |-> TRUE, vars |-> <<>>]]}

ObjectiveAnnotations ==
    {[decl |-> d, entries |-> <<>>,
      default |-> [all |-> TRUE, vars |-> <<>>, include_constant |-> TRUE]] :
        d \in {"none", "default", "explicit"}}

OriginalLower == [con \in Cons |-> LowerOf(con, args.kinds[con])]
OriginalUpper == [con \in Cons |-> UpperOf(con, args.kinds[con])]

InitExternal ==
    /\ pc = "_convert_external_setup"
    /\ \E kind1 \in {"eq", "range", "ge"}, kind2 \in {"le", "ge"},
          body1 \in {<<1>>, <<1, 2>>},
          attrs1 \in AttrProfiles, attrs2 \in {NoAttrs, [name \in AttrNames |-> "original"]},
          rhs \in RhsAnnotations, matrix \in MatrixAnnotations,
          objective \in ObjectiveAnnotations,
          nonlinear \in {{}, {"c2"}}, varbounds \in BOOLEAN,
          labels \in {"names", "RHS", "ONE_VAR_CONSTANT"} :
          \* two constraints of one kind are tried on the plain model only
          /\ kind1 = "ge" =>
                attrs1 = NoAttrs /\ attrs2 = NoAttrs /\ nonlinear = {} /\ ~varbounds
          \* a variable named as a reserved word is tried on that model only
          /\ labels # "names" => kind1 = "ge" /\ kind2 = "le" /\ body1 = <<1, 2>>
          /\ args = [mode |-> "external",
                     kinds |-> [con \in Cons |-> IF con = "c1" THEN kind1 ELSE kind2],
                     body1 |-> body1,
                     attrs |-> [b \in BlockNames |-> IF b = "b1" THEN attrs1 ELSE attrs2],
                     rhs |-> rhs, matrix |-> matrix, objective |-> objective,
                     varbounds |-> varbounds,
                     nonlinear |-> nonlinear,
                     labels |-> labels,
                     enforce_derived_nonanticipativity |-> FALSE,
                     file_format |-> "mps"]
    /\ model = [lower |-> OriginalLower, upper |-> OriginalUpper,
                attrs |-> args.attrs, repn |-> <<>>, params |-> <<>>]
    /\ loc = NoLocals
    /\ files = <<>>
    /\ ret = [err |-> "pending"]


\* ======================================================== convert_embedded
\* --- the stochastic program sp
Params == {"p1", "p2"}

\* paramdata.value before the call
ParamValue(param) == IF param = "p1" THEN 5 ELSE 7

\* sp.stochastic_data[paramdata]: a discrete table given as a list of values
Distribution(param) == <<ParamValue(param), ParamValue(param) + 1>>

\* the places of the model's expressions a parameter may stand in: a
\* coefficient of a variable, the constant of the objective, a bound
Locations ==
    {[component |-> "objective", col |-> "x2"],
     [component |-> "objective", col |-> "ONE_VAR_CONSTANT"],
     [component |-> "c2", col |-> "x2"],
     [component |-> "c2", col |-> "RHS"],
     [component |-> "c1", col |-> "RHS"],
     [component |-> "c1", col |-> "x1"]}

\* the places one parameter stands in: one place, or two
ParamPlaces ==
    {{l} : l \in Locations}
      \cup {{[component |-> "objective", col |-> "x2"],
             [component |-> "c2", col |-> "x2"]},
            {[component |-> "c2", col |-> "x2"],
             [component |-> "c2", col |-> "RHS"]}}

\* a variable that sp declares in a time stage and no expression of the model
\* refers to: the writer gives it no column and no symbol; its name sorts
\* before the names of the other variables
UnusedVar == 0

\* sp.stage_to_variables_map: (var, derived) pairs of the two time stages
stage_to_variables_map ==
    [firststage |->
        (IF args.unused = "first" THEN <<[var |-> UnusedVar, derived |-> FALSE]>> ELSE <<>>) \o
        <<[var |-> 1, derived |-> FALSE]>> \o
        (IF args.var2 = "derived" THEN <<[var |-> 2, derived |-> TRUE]>> ELSE <<>>),
     secondstage |->
        (IF args.unused = "second" THEN <<[var |-> UnusedVar, derived |-> FALSE]>> ELSE <<>>) \o
        [i \in 1..(NumVars - (IF args.var2 = "derived" THEN 2 ELSE 1)) |->
            [var |-> i + (IF args.var2 = "derived" THEN 2 ELSE 1), derived |-> FALSE]]]

\* the parameters of sp.stochastic_data that stand in a place
StochasticParamsAt(location) ==
    {param \in args.stochastic_data : location \in args.where[param]}

\* the keys of sp.constraint_to_stochastic_data_map
StochasticConstraints ==
    {con \in Cons : \E l \in Locations : l.component = con /\ StochasticParamsAt(l) # {}}

\* the locals of convert_embedded before anything is assigned
NoEmbeddedLocals ==
    [first_stage_variables |-> <<>>,
     second_stage_variables |-> <<>>,
     first_stage_constraints |-> <<>>,
     second_stage_constraints |-> <<>>,
     column_order |-> <<>>,
     row_order |-> <<>>,
     param_vals_orig |-> <<>>,
     symbol_map |-> <<>>,
     constraint_symbols |-> <<>>,
     tim |-> <<>>,
     sto |-> <<>>]

\* --- lines 1363-1456: the check of the variable bounds, the stages, the orders
\* the variables of a list of (var, derived) pairs
VarsOf(pairs) == [i \in DOMAIN pairs |-> pairs[i].var]

\* enumerate(list, start)
Enumerate(list, start) ==
    [x \in Range(list) |-> (CHOOSE i \in DOMAIN list : list[i] = x) - 1 + start]

EmbeddedStages ==
    LET KeptFirst(pair) == ~pair.derived \/ args.enforce_derived_nonanticipativity
        Pushed(pair) == ~KeptFirst(pair)
        IsFirst(con) == args.constage[con] = "first"
        IsSecond(con) == ~IsFirst(con)
        by_name == [v \in Vars \cup {UnusedVar} |-> v]
    IN [first_stage_variables |->
           SortByColumn(VarsOf(SelectSeq(stage_to_variables_map.firststage, KeptFirst)),
                        by_name),
        second_stage_variables |->
           SortByColumn(VarsOf(SelectSeq(stage_to_variables_map.firststage, Pushed)
                                 \o stage_to_variables_map.secondstage),
                        by_name),
        first_stage_constraints |-> SelectSeq(all_constraints, IsFirst),
        second_stage_constraints |-> SelectSeq(all_constraints, IsSecond)]

EmbeddedError(has_stochastic_variable_bounds) ==
    IF has_stochastic_variable_bounds THEN "ValueError: stochastic variable bounds"
    ELSE "none"

EmbeddedSetup ==
    /\ pc = "convert_embedded"
    /\ IF EmbeddedError(args.varbounds) # "none"
       THEN /\ ret' = [err |-> EmbeddedError(args.varbounds)]
            /\ pc' = "raised"
            /\ UNCHANGED loc
       ELSE /\ loc' = [loc EXCEPT
                  !.first_stage_variables = EmbeddedStages.first_stage_variables,
                  !.second_stage_variables = EmbeddedStages.second_stage_variables,
                  !.first_stage_constraints = EmbeddedStages.first_stage_constraints,
                  !.second_stage_constraints = EmbeddedStages.second_stage_constraints,
                  !.column_order =
                      Enumerate(EmbeddedStages.first_stage_variables
                                  \o EmbeddedStages.second_stage_variables, 0),
                  !.row_order =
                      Enumerate(EmbeddedStages.first_stage_constraints
                                  \o EmbeddedStages.second_stage_constraints, 0)]
            /\ pc' = "zero_params"
            /\ UNCHANGED ret
    /\ UNCHANGED <<args, model, files>>

\* --- lines 1459-1465: set all stochastic parameters to zero
ZeroParams ==
    /\ pc = "zero_params"
    /\ loc' = [loc EXCEPT !.param_vals_orig =
                  [param \in args.stochastic_data |-> model.params[param]]]
    /\ model' = [model EXCEPT !.params =
                    [param \in Params |->
                        IF param \in args.stochastic_data THEN 0 ELSE @[param]]]
    /\ pc' = "write_cor"
    /\ UNCHANGED <<args, ret, files>>

\* --- lines 1470-1487: the ordered write of the core file
WriteCor ==
    /\ pc = "write_cor"
    /\ files' = Append(files, "cor")
    /\ model' = [model EXCEPT !.attrs = AttrsAfterWrite(@)]
    /\ loc' = [loc EXCEPT !.symbol_map = WriterSymbolMap]
    /\ pc' = "reset_params"
    /\ UNCHANGED <<args, ret>>

\* the writer fails (the file cannot be written): the exception propagates
WriteCorRaises ==
    /\ pc = "write_cor"
    /\ ret' = [err |-> "IOError"]
    /\ pc' = "raised"
    /\ UNCHANGED <<args, model, loc, files>>

\* --- lines 1489-1515: the reset of the parameters, the constraint symbols
\* param_vals_orig = ComponentMap(), just before the loop over its items
ParamValsAtReset(param_vals_orig) == <<>>

RestoredParams(params, param_vals_orig) ==
    [param \in DOMAIN params |->
        IF param \in DOMAIN param_vals_orig THEN param_vals_orig[param]
        ELSE params[param]]

ResetParams ==
    /\ pc = "reset_params"
    /\ model' = [model EXCEPT !.params =
                    RestoredParams(@, ParamValsAtReset(loc.param_vals_orig))]
    /\ loc' = [loc EXCEPT
          !.param_vals_orig = <<>>,
          !.constraint_symbols =
              [con \in Range(loc.first_stage_constraints \o loc.second_stage_constraints) |->
                  reverse_alias(loc.symbol_map, loc.symbol_map.byObject[con])]]
    /\ pc' = "write_tim"
    /\ UNCHANGED <<args, ret, files>>


\* --- lines 1572-1634: the .tim file
\* the implicit .tim file takes the first entry of three lists
EmbeddedTimError ==
    IF args.file_format # "mps" THEN "none"
    ELSE IF loc.first_stage_variables = <<>> THEN "IndexError"
    ELSE IF loc.first_stage_variables[1] \notin DOMAIN loc.symbol_map.byObjectVars
    THEN "KeyError"
    ELSE IF loc.second_stage_constraints = <<>> THEN "IndexError"
    ELSE IF loc.second_stage_variables = <<>> THEN "IndexError"
    ELSE "none"

\* lines 1575-1599: the TIME1 and TIME2 lines of the implicit .tim file
EmbeddedTimFile ==
    <<[col |-> loc.symbol_map.byObjectVars[loc.first_stage_variables[1]],
       row |-> RowLine(loc.symbol_map.byObject["objective"]),
       period |-> "TIME1"],
      [col |-> IF loc.second_stage_variables[1] \in DOMAIN loc.symbol_map.byObjectVars
               THEN loc.symbol_map.byObjectVars[loc.second_stage_variables[1]]
               ELSE "ONE_VAR_CONSTANT",
       row |-> SortAliases(Range(loc.constraint_symbols[loc.second_stage_constraints[1]]))[1],
       period |-> "TIME2"]>>

WriteTim ==
    /\ pc = "write_tim"
    /\ files' = Append(files, "tim")
    /\ IF EmbeddedTimError # "none"
       THEN /\ ret' = [err |-> EmbeddedTimError]
            /\ pc' = "raised"
            /\ UNCHANGED loc
       ELSE /\ loc' = [loc EXCEPT !.tim = EmbeddedTimFile]
            /\ pc' = "write_sto"
            /\ UNCHANGED ret
    /\ UNCHANGED <<args, model>>

\* --- lines 1645-1924: the body of the .sto file
\* the loop body over objective_vars / constraint_vars: st holds
\* stochastic_data_seen, the records written so far and the error raised
\* a slip: the records of a place are written before the parameter is looked
\* up in stochastic_data_seen
PlaceStep_written_first(st, place, row) ==
    LET stochastic_params == StochasticParamsAt(place)
        distribution == Distribution(CHOOSE param \in stochastic_params : TRUE)
        records == IF Cardinality(stochastic_params) = 1 /\ args.exact
                   THEN [k \in DOMAIN distribution |->
                            [col |-> place.col, row |-> row,
                             val |-> distribution[k],
                             prob |-> <<1, Len(distribution)>>]]
                   ELSE <<>>
    IN IF \E param \in stochastic_params : param \in DOMAIN st.stochastic_data_seen
       THEN LET param == CHOOSE param \in stochastic_params :
                             param \in DOMAIN st.stochastic_data_seen
            IN [st EXCEPT !.sto = @ \o records,
                          !.err = "ValueError: multiple locations",
                          !.names = <<place.component, param, place.component,
                                      st.stochastic_data_seen[param]>>]
       ELSE [st EXCEPT !.sto = @ \o records,
                       !.stochastic_data_seen =
                           [param \in DOMAIN @ \cup stochastic_params |->
                               IF param \in stochastic_params THEN place.component
                               ELSE @[param]],
                       !.err = IF Cardinality(stochastic_params) = 1 /\ ~args.exact
                               THEN "ValueError: not exactly the parameter"
                               ELSE IF Cardinality(stochastic_params) > 1
                               THEN "ValueError: multiple parameters" ELSE "none"]

PlaceStep(st, place, row) ==
    LET stochastic_params == StochasticParamsAt(place)
        distribution == Distribution(CHOOSE param \in stochastic_params : TRUE)
        seen == [param \in DOMAIN st.stochastic_data_seen \cup stochastic_params |->
                    IF param \in stochastic_params THEN place.component
                    ELSE st.stochastic_data_seen[param]]
    IN IF \E param \in stochastic_params : param \in DOMAIN st.stochastic_data_seen
       THEN LET param == CHOOSE param \in stochastic_params :
                             param \in DOMAIN st.stochastic_data_seen
            IN [st EXCEPT !.err = "ValueError: multiple locations",
                          !.names = <<place.component, param, place.component,
                                      st.stochastic_data_seen[param]>>]
       ELSE IF Cardinality(stochastic_params) = 1
       THEN IF ~args.exact
            THEN [st EXCEPT !.stochastic_data_seen = seen,
                            !.err = "ValueError: not exactly the parameter"]
            ELSE [st EXCEPT !.stochastic_data_seen = seen,
                            !.sto = @ \o [k \in DOMAIN distribution |->
                                            [col |-> place.col, row |-> row,
                                             val |-> distribution[k],
                                             prob |-> <<1, Len(distribution)>>]]]
       ELSE IF Cardinality(stochastic_params) > 1
       THEN [st EXCEPT !.stochastic_data_seen = seen,
                       !.err = "ValueError: multiple parameters"]
       ELSE st

RECURSIVE PlaceSteps(_, _, _, _)
PlaceSteps(st, places, k, row) ==
    IF k > Len(places) \/ st.err # "none" THEN st
    ELSE PlaceSteps(PlaceStep(st, places[k], row), places, k + 1, row)

\* the variables of an expression in column order, as places of a component
VarPlaces(component, variables) ==
    LET sorted == SortByColumn(variables, loc.column_order)
    IN [i \in DOMAIN sorted |->
           [component |-> component, col |-> loc.symbol_map.byObjectVars[sorted[i]]]]

\* objective_vars: the objective has a constant where a parameter stands in it
ObjectiveVars ==
    VarPlaces("objective", [i \in 1..NumVars |-> i]) \o
    (IF StochasticParamsAt([component |-> "objective", col |-> "ONE_VAR_CONSTANT"]) # {}
     THEN <<[component |-> "objective", col |-> "ONE_VAR_CONSTANT"]>> ELSE <<>>)

StochasticObjectiveElements(st) ==
    IF \A l \in Locations : l.component = "objective" => StochasticParamsAt(l) = {}
    THEN st
    ELSE IF "objective" \in args.nonlinear
    THEN [st EXCEPT !.err = "ValueError: nonlinear"]
    ELSE PlaceSteps(st, ObjectiveVars, 1, RowLine(loc.symbol_map.byObject["objective"]))

\* constraint_vars, with the bound the row symbol stands for
ConstraintVars(con) ==
    VarPlaces(con, BodyOf(con)) \o
    (IF loc.constraint_symbols[con][1].prefix \in {"c_e_", "c_l_", "c_u_"}
     THEN <<[component |-> con, col |-> "RHS"]>> ELSE <<>>)

\* a slip: a constraint with two symbols is taken as any other
HasTwoSymbols_never(con) == FALSE

\* len(symbols) == 2: the writer split the constraint into two rows
HasTwoSymbols(con) == Len(loc.constraint_symbols[con]) = 2

RECURSIVE StochasticConstraintElements(_, _, _)
StochasticConstraintElements(st, stochastic_constraints, k) ==
    IF k > Len(stochastic_constraints) \/ st.err # "none" THEN st
    ELSE LET con == stochastic_constraints[k]
         IN StochasticConstraintElements(
               IF con \in args.nonlinear
               THEN [st EXCEPT !.err = "ValueError: nonlinear"]
               ELSE IF HasTwoSymbols(con)
               THEN [st EXCEPT !.err = "ValueError: range constraint",
                               !.names = <<con>>]
               ELSE PlaceSteps(st, ConstraintVars(con), 1, loc.constraint_symbols[con][1]),
               stochastic_constraints, k + 1)

WriteSto ==
    /\ pc = "write_sto"
    /\ LET IsStochastic(con) == con \in StochasticConstraints
           st == StochasticConstraintElements(
                    StochasticObjectiveElements(
                        [stochastic_data_seen |-> <<>>, sto |-> <<>>, err |-> "none",
                         names |-> <<>>]),
                    SortByColumn(SelectSeq(all_constraints, IsStochastic), loc.row_order),
                    1)
       IN /\ files' = Append(files, "sto")
          /\ loc' = [loc EXCEPT !.sto = st.sto]
          /\ ret' = [err |-> st.err, names |-> st.names]
          /\ pc' = IF st.err = "none" THEN "returned" ELSE "raised"
    /\ UNCHANGED <<args, model>>

\* --- the stochastic programs convert_embedded is called with
InitEmbedded ==
    /\ pc = "convert_embedded"
    /\ \E kind1 \in {"eq", "range"}, kind2 \in {"le", "ge"},
          var2 \in {"derived", "second"}, constage1 \in {"first", "second"},
          unused \in {"none", "first", "second"},
          enforce, exact, varbounds \in BOOLEAN,
          stochastic_data \in {{"p1"}, {"p1", "p2"}} :
          \E where \in [stochastic_data -> ParamPlaces] :
             \* a variable that no expression refers to is tried with one
             \* stochastic parameter only
             /\ unused # "none" => exact /\ ~varbounds /\ stochastic_data = {"p1"}
             \* a coefficient of the first constraint likewise, with every
             \* variable in an expression
             /\ (\E param \in stochastic_data :
                    where[param] = {[component |-> "c1", col |-> "x1"]}) =>
                   exact /\ ~varbounds /\ stochastic_data = {"p1"} /\ unused = "none"
             /\ args = [mode |-> "embedded",
                        kinds |-> [con \in Cons |-> IF con = "c1" THEN kind1 ELSE kind2],
                        body1 |-> <<1>>,
                        attrs |-> [b \in BlockNames |-> NoAttrs],
                        var2 |-> var2,
                        unused |-> unused,
                        constage |-> [con \in Cons |->
                                         IF con = "c1" THEN constage1 ELSE "second"],
                        stochastic_data |-> stochastic_data,
                        where |-> where,
                        exact |-> exact,
                        varbounds |-> varbounds,
                        nonlinear |-> {},
                        enforce_derived_nonanticipativity |-> enforce,
                        file_format |-> "mps"]
    /\ model = [lower |-> OriginalLower, upper |-> OriginalUpper,
                attrs |-> args.attrs, repn |-> <<>>,
                params |-> [param \in Params |-> ParamValue(param)]]
    /\ loc = NoEmbeddedLocals
    /\ files = <<>>
    /\ ret = [err |-> "pending"]

\* ------------------------------------------------------------ the conversion
Init == InitExternal \/ InitEmbedded

Next ==
    \/ CacheAttrs
    \/ LocateAnnotations
    \/ WriterRaises
    \/ WriteSetup
    \/ MapStages
    \/ WriteOrdered
    \/ WriteStructure
    \/ StochasticRhsEntry
    \/ StochasticRhsEnd
    \/ StochasticMatrixEntry
    \/ StochasticMatrixEnd
    \/ StochasticObjective
    \/ WriteDet
    \/ ResetBounds
    \/ Finally
    \/ EmbeddedSetup
    \/ ZeroParams
    \/ WriteCor
    \/ WriteCorRaises
    \/ ResetParams
    \/ WriteTim
    \/ WriteSto

Spec == Init /\ [][Next]_vars



\* --- what the claims say of the conversion
External == args.mode = "external"
Embedded == args.mode = "embedded"
Done == pc \in {"returned", "raised"}

BoundsModified ==
    DOMAIN loc.modified_constraint_lb \cup DOMAIN loc.modified_constraint_ub # {}

BoundsAsBefore == model.lower = OriginalLower /\ model.upper = OriginalUpper

\* C1: after a successful call of _convert_external_setup every constraint's
\* lower and upper bound has the value it had before the call; each bound
\* that the stochastic rhs entries replaced by the sentinel -99999999 holds
\* the sentinel, with its original captured, until the bounds are reset
\* just before the function returns.
C1_BoundsRestored ==
    /\ (External /\ pc = "returned") => BoundsAsBefore
    /\ (External /\ pc = "reset_bounds") =>
          /\ \A con \in DOMAIN loc.modified_constraint_lb :
                /\ model.lower[con] = <<_deterministic_check_value>>
                /\ loc.modified_constraint_lb[con] = OriginalLower[con]
          /\ \A con \in DOMAIN loc.modified_constraint_ub :
                /\ model.upper[con] = <<_deterministic_check_value>>
                /\ loc.modified_constraint_ub[con] = OriginalUpper[con]

\* a call that replaced a lower and an upper bound has returned
C1_Witness ==
    /\ External /\ pc = "returned"
    /\ DOMAIN loc.modified_constraint_lb # {}
    /\ DOMAIN loc.modified_constraint_ub # {}

\* C2: if _convert_external_setup raises after at least one constraint bound
\* has been replaced by the sentinel, every constraint's lower and upper
\* bound equals its value before the call when the exception reaches the
\* caller.
C2_AsStated == (External /\ pc = "raised" /\ BoundsModified) => BoundsAsBefore

\* C3: on every exit path of _convert_external_setup each block has exactly
\* the cached-representation attributes it had before the call: a present
\* attribute holds its original object, an absent one is absent afterwards.
C3_AsStated == (External /\ Done) => model.attrs = args.attrs

\* C4: after convert_embedded returns, every stochastic parameter of
\* sp.stochastic_data has the value it had before the call.
C4_AsStated ==
    (Embedded /\ pc = "returned") =>
        \A param \in args.stochastic_data : model.params[param] = ParamValue(param)

NoneDeclared ==
    /\ args.rhs.decl = "none"
    /\ args.matrix.decl = "none"
    /\ args.objective.decl = "none"

\* the conversion has not come to its first call of the writer
BeforeFirstWrite ==
    /\ pc \in {"_convert_external_setup", "locate_annotations", "finally", "raised",
               "convert_embedded"}
    /\ files = <<>>

\* C9 as the claim states it: with none of the three annotations the
\* conversion fails with the 'No stochastic annotations found' error before
\* the first call of the writer.
C9_AsStated ==
    (External /\ Done /\ NoneDeclared) =>
        /\ pc = "raised" /\ BeforeFirstWrite
        /\ ret.err = "RuntimeError: No stochastic annotations found"

\* C9: with none of the stochastic rhs, matrix and objective annotations the
\* per-scenario conversion never comes to its first call of the writer and
\* writes no file; it fails with the 'No stochastic annotations found'
\* RuntimeError, unless the model declares a stochastic variable bounds
\* annotation, which is tested first and makes it fail with the ValueError.
C9_NoAnnotations ==
    (External /\ NoneDeclared) =>
        /\ BeforeFirstWrite
        /\ Done =>
              /\ pc = "raised"
              /\ ret.err = IF args.varbounds
                           THEN "ValueError: stochastic variable bounds"
                           ELSE "RuntimeError: No stochastic annotations found"

\* the call failed for want of an annotation
C9_Witness ==
    /\ External /\ NoneDeclared /\ pc = "raised"
    /\ ret.err = "RuntimeError: No stochastic annotations found"

\* C10 as the claim states it: with a stochastic variable bounds annotation
\* the conversion fails with the ValueError whatever else is declared,
\* before any file is written.
C10_AsStated ==
    (Done /\ args.varbounds) =>
        /\ pc = "raised" /\ files = <<>>
        /\ ret.err = "ValueError: stochastic variable bounds"

\* an rhs or matrix annotation whose explicit entries recover no constraint
NoConstraintRecovered ==
    \/ args.rhs.decl = "explicit" /\ args.rhs.entries = <<>>
    \/ args.matrix.decl = "explicit" /\ args.matrix.entries = <<>>

\* C10: with a stochastic variable bounds annotation the conversion fails
\* before any call of the writer and writes no file. convert_embedded fails
\* with the ValueError; so does the convert_external path, unless the rhs or
\* the matrix annotation was declared with explicit entries that recover no
\* active constraint: that is tested first and raises the RuntimeError.
C10_VarBoundsRejected ==
    args.varbounds =>
        /\ BeforeFirstWrite
        /\ Done =>
              /\ pc = "raised"
              /\ ret.err = IF External /\ NoConstraintRecovered
                           THEN "RuntimeError: no active Constraint"
                           ELSE "ValueError: stochastic variable bounds"

\* the ValueError, for a model that declares other annotations as well
C10_Witness ==
    /\ External /\ args.varbounds /\ pc = "raised"
    /\ args.rhs.decl = "default" /\ args.objective.decl = "default"
    /\ ret.err = "ValueError: stochastic variable bounds"


StructureWritten == External /\ loc.col # <<>>

\* the constraint a line of the .row file belongs to, by the symbol map that
\* the ordered write returned
RowOwners(line) == {c \in Cons : loc.symbol_map.byObject[c] = line.symbol /\ line.prefix # ""}
ColOwners(symbol) == {v \in Vars : loc.symbol_map.byObjectVars[v] = symbol}
ConstraintLines == 2..(Len(loc.row) - 1)
VariableLines == 1..(Len(loc.col) - 1)
SecondStageRow(i) == RowOwners(loc.row[i]) \subseteq loc.secondstage_constraint_ids
SecondStageCol(i) ==
    \A v \in ColOwners(loc.col[i]) :
        VarStageOf(ScenarioTreeIdOf(v), args.enforce_derived_nonanticipativity) = "second"

\* C12: in the .row file of a scenario the objective symbol is the first line,
\* no second-stage row precedes a first-stage row, a range constraint has its
\* r_l_ line immediately before its r_u_ line, and the last line is
\* c_e_ONE_VAR_CONSTANT; in the .col file no second-stage column precedes a
\* first-stage column and the last line is ONE_VAR_CONSTANT.
C12_RowColOrder ==
    StructureWritten =>
        /\ loc.row[1] = RowLine(loc.symbol_map.byObject["objective"])
        /\ loc.row[Len(loc.row)] = [prefix |-> "c_e_", symbol |-> "ONE_VAR_CONSTANT"]
        /\ \A i \in ConstraintLines : Cardinality(RowOwners(loc.row[i])) = 1
        /\ \A i, j \in ConstraintLines :
              (i < j /\ SecondStageRow(i)) => SecondStageRow(j)
        /\ \A i \in ConstraintLines :
              /\ loc.row[i].prefix = "r_l_" =>
                    loc.row[i + 1] = [prefix |-> "r_u_", symbol |-> loc.row[i].symbol]
              /\ loc.row[i].prefix = "r_u_" =>
                    loc.row[i - 1] = [prefix |-> "r_l_", symbol |-> loc.row[i].symbol]
        /\ \A c \in Cons : args.kinds[c] = "range" =>
              \E i \in ConstraintLines : loc.row[i].prefix = "r_l_" /\ RowOwners(loc.row[i]) = {c}
        /\ loc.col[Len(loc.col)] = "ONE_VAR_CONSTANT"
        /\ \A i \in VariableLines : Cardinality(ColOwners(loc.col[i])) = 1
        /\ \A i, j \in VariableLines :
              (i < j /\ SecondStageCol(i)) => SecondStageCol(j)

\* the files of a scenario with a first-stage range constraint, a second-stage
\* constraint and a variable of each stage, under the renamed symbol map
C12_Witness ==
    /\ StructureWritten
    /\ loc.symbol_map = RenamedSymbolMap
    /\ args.kinds["c1"] = "range"
    /\ "c1" \notin loc.secondstage_constraint_ids
    /\ "c2" \in loc.secondstage_constraint_ids
    /\ Len(loc.row) = 5
    /\ Len(loc.col) = NumVars + 1


\* the number of lines the constraints of a set take in the .row file
RECURSIVE RowLinesOf(_)
RowLinesOf(S) ==
    IF S = {} THEN 0
    ELSE LET c == CHOOSE c \in S : TRUE
         IN (IF args.kinds[c] = "range" THEN 2 ELSE 1) + RowLinesOf(S \ {c})

\* C13: every variable line of .col is the symbol of exactly one variable of
\* the column_order passed to the writer and every constraint line of .row is
\* a symbol of exactly one constraint of the row_order passed to the writer,
\* no line is written twice, and the files have one line per entry of the
\* order (two for a range constraint) plus the synthetic line, plus the
\* objective line in .row, which is what the returned counts add up to.
C13_SymbolCoverage ==
    StructureWritten =>
        /\ \A i \in VariableLines :
              Cardinality(ColOwners(loc.col[i]) \cap DOMAIN loc.column_order) = 1
        /\ \A i \in ConstraintLines :
              Cardinality(RowOwners(loc.row[i]) \cap DOMAIN loc.row_order) = 1
        /\ \A i, j \in DOMAIN loc.col : loc.col[i] = loc.col[j] => i = j
        /\ \A i, j \in DOMAIN loc.row : loc.row[i] = loc.row[j] => i = j
        /\ Len(loc.col) = Cardinality(DOMAIN loc.column_order) + 1
        /\ Len(loc.col) = loc.counts.firststage_variable_count
                            + loc.counts.secondstage_variable_count
        /\ Len(loc.row) = RowLinesOf(DOMAIN loc.row_order) + 1 + 1
        /\ Len(loc.row) = loc.counts.firststage_constraint_count
                            + loc.counts.secondstage_constraint_count + 1

\* the files of a scenario with a range constraint and an equality or
\* inequality constraint, under the renamed symbol map
C13_Witness ==
    /\ StructureWritten
    /\ loc.symbol_map = RenamedSymbolMap
    /\ args.kinds["c1"] = "range"
    /\ DOMAIN loc.row_order = Cons
    /\ DOMAIN loc.column_order = Vars
    /\ Len(loc.row) = 5


\* the one constraint of a line of .row and the one variable of a line of .col
RowOwner(i) == CHOOSE c \in Cons : c \in RowOwners(loc.row[i])
ColOwner(i) == CHOOSE v \in Vars : v \in ColOwners(loc.col[i])

\* C14: the constraints come in the .row file, and the variables in the .col
\* file, in the order of their ranks in the row_order and column_order that
\* were passed to the writer for the ordered core file, whatever symbol map
\* the ordered write returned.
C14_AsStated ==
    StructureWritten =>
        /\ \A i, j \in ConstraintLines :
              i < j => loc.row_order[RowOwner(i)] <= loc.row_order[RowOwner(j)]
        /\ \A i, j \in VariableLines :
              i < j => loc.column_order[ColOwner(i)] <= loc.column_order[ColOwner(j)]


\* the columns of the core file: the variables the writer gave a symbol, in
\* the order of the column_order it was given
CoreVars ==
    SortByColumn([i \in DOMAIN loc.symbol_map.byObjectVars |-> i], loc.column_order)
SecondStageVar(v) ==
    IF External
    THEN VarStageOf(ScenarioTreeIdOf(v), args.enforce_derived_nonanticipativity) = "second"
    ELSE v \in Range(loc.second_stage_variables)
SecondStageCoreVars == SelectSeq(CoreVars, SecondStageVar)
FirstSecondStageColumn ==
    IF SecondStageCoreVars = <<>> THEN "ONE_VAR_CONSTANT"
    ELSE loc.symbol_map.byObjectVars[SecondStageCoreVars[1]]
TimWritten == loc.tim # <<>>

\* C15: in the implicit .tim file of a scenario of convert_external and in
\* the one of convert_embedded, the TIME1 line names the first column of the
\* core file and the objective row, and the TIME2 line names the first
\* second-stage column of the core file and the r_l_ or only symbol of the
\* first second-stage row.
C15_AsStated ==
    TimWritten =>
        /\ loc.tim[1].col = loc.symbol_map.byObjectVars[CoreVars[1]]
        /\ loc.tim[1].row = RowLine(loc.symbol_map.byObject["objective"])
        /\ loc.tim[2].col = FirstSecondStageColumn
        /\ loc.tim[2].row.prefix # "r_u_"
        /\ External =>
              \E i \in ConstraintLines :
                 /\ loc.row[i] = loc.tim[2].row
                 /\ SecondStageRow(i)
                 /\ \A j \in ConstraintLines : j < i => ~SecondStageRow(j)


\* C16: when the list of second-stage variables is empty, the implicit .tim
\* file is written without an error and its TIME2 line names ONE_VAR_CONSTANT
\* as the first second-stage column.
C16_AsStated ==
    (/\ Embedded
     /\ "tim" \in Range(files)
     /\ loc.first_stage_variables[1] \in DOMAIN loc.symbol_map.byObjectVars
     /\ loc.second_stage_variables = <<>>) =>
        /\ ~(pc = "raised" /\ ret.err = "IndexError")
        /\ TimWritten
        /\ loc.tim[2].col = "ONE_VAR_CONSTANT"


\* ======================================================== convert_external
\* --- the scenario tree and the scenarios' models
\* scenario_tree.scenarios, in order; the first is the reference scenario
scenarios == <<"s1", "s2">>
reference_scenario == scenarios[1]

\* scenario.probability, in percent
Probability(scenario) == IF scenario = "s1" THEN 25 ELSE 75

\* the values of a scenario's model that may change with the scenario: the
\* coefficient of a variable in a constraint, a bound of a constraint, the
\* constant of the objective
Places == {"coefficient", "bound", "constant"}
BaseValues == [place \in Places |-> 1]

\* the scenarios' models: like the base model, or with one value changed, or
\* with a structure that changes one of the structure files
Layouts == {"base", "row", "col", "tim", "sto.struct"}
ScenarioModels ==
    {[layout |-> layout, values |-> BaseValues] : layout \in Layouts}
      \cup {[layout |-> "base", values |-> [BaseValues EXCEPT ![place] = 2]] :
                place \in Places}

\* the places the model's stochastic annotations declare
Coverages == {{}, {"coefficient"}, {"bound", "constant"}, Places}

\* --- lines 549-964: the files _convert_external_setup writes for a scenario
\* lines 742, 843, 911, 938: a declared bound or coefficient is replaced by
\* _deterministic_check_value and a declared constant by 0 before the
\* deterministic core file is written; any other value is written as it is
DetValue(place, val, covered) ==
    IF place \notin covered THEN val
    ELSE IF place = "constant" THEN 0
    ELSE _deterministic_check_value

\* a slip: the values the annotations declare are written as they are
DetFile_values_kept(scenario_model, covered) ==
    [place \in Places |-> scenario_model.values[place]]

DetFile(scenario_model, covered) ==
    [place \in Places |-> DetValue(place, scenario_model.values[place], covered)]

\* lines 684-947: the BL line, then one record per declared place
RECURSIVE StoRecords(_, _)
StoRecords(S, scenario_model) ==
    IF S = {} THEN <<>>
    ELSE LET Rank(place) == IF place = "bound" THEN 1
                            ELSE IF place = "coefficient" THEN 2 ELSE 3
             place == CHOOSE x \in S : \A y \in S : Rank(x) <= Rank(y)
         IN <<[line |-> "record", place |-> place, val |-> scenario_model.values[place]]>>
              \o StoRecords(S \ {place}, scenario_model)

StoFile(scenario, scenario_model, covered) ==
    <<[line |-> "BL", block |-> "BLOCK1", period |-> "PERIOD2",
       probability |-> Probability(scenario)]>>
      \o StoRecords(covered, scenario_model)

StructureFile(kind, scenario_model, covered) ==
    [kind |-> kind,
     layout |-> IF scenario_model.layout = kind THEN kind ELSE "base",
     places |-> IF kind = "sto.struct" THEN covered ELSE {}]

ScenarioFileKinds == {"row", "col", "tim", "sto.struct", "sto", "det", "setup", "core"}
ScenarioFile(kind, scenario) == [kind |-> kind, scenario |-> scenario]

ScenarioFileContent(kind, scenario) ==
    IF kind = "det" THEN DetFile(args.models[scenario], args.covered)
    ELSE IF kind = "sto" THEN StoFile(scenario, args.models[scenario], args.covered)
    ELSE StructureFile(kind, args.models[scenario], args.covered)

\* the counts _convert_external_setup returns for a scenario
ScenarioCounts(scenario) ==
    [stochastic_entries |-> Cardinality(args.covered),
     layout |-> args.models[scenario].layout]

NoConvertLocals == [counts |-> <<>>, i |-> 0, converted |-> {}]
NoFiles == [output_directory |-> <<>>, scenario_directory |-> <<>>, scenario_files |-> FALSE]

\* --- lines 996-1018: the bundles test, the directory, the per-scenario calls
ConvertExternalStart ==
    /\ pc = "convert_external"
    /\ IF args.contains_bundles
       THEN /\ ret' = [err |-> "ValueError: bundles", names |-> <<>>]
            /\ pc' = "raised"
            /\ UNCHANGED files
       ELSE /\ files' = [files EXCEPT !.scenario_files = TRUE]
            /\ pc' = "invoke_function"
            /\ UNCHANGED ret
    /\ UNCHANGED <<args, model, loc>>

ScenarioNames == Range(scenarios)

\* invoke_function(..., PerScenario): the function is called once for every
\* scenario, in an order and on workers the manager chooses
ConvertScenario ==
    /\ pc = "invoke_function"
    /\ \E scenario \in ScenarioNames \ loc.converted :
          /\ files' = [files EXCEPT !.scenario_directory =
                          [f \in DOMAIN @ \cup {ScenarioFile(kind, scenario) :
                                                   kind \in ScenarioFileKinds} |->
                              IF f.scenario = scenario
                              THEN ScenarioFileContent(f.kind, f.scenario)
                              ELSE @[f]]]
          /\ loc' = [loc EXCEPT !.converted = @ \cup {scenario}]
    /\ UNCHANGED <<pc, args, model, ret>>

\* a slip: the call returns once the reference scenario is converted
AllConverted_reference_only == reference_scenario \in loc.converted

\* invoke_function returns the results when every call has returned
AllConverted == loc.converted = ScenarioNames

InvokeFunction ==
    /\ pc = "invoke_function"
    /\ AllConverted
    /\ loc' = [loc EXCEPT !.counts = ScenarioCounts(reference_scenario)]
    /\ pc' = "copy_reference"
    /\ UNCHANGED <<args, model, ret, files>>

\* the conversion of a scenario raises: the exception propagates
InvokeFunctionRaises ==
    /\ pc = "invoke_function"
    /\ ~AllConverted
    /\ ret' = [err |-> "RuntimeError: scenario", names |-> <<>>]
    /\ pc' = "raised"
    /\ UNCHANGED <<args, model, loc, files>>

\* --- lines 1036-1082: the copies of the reference scenario's files
\* the name of a copy in the output directory and the scenario file it is a copy of
CopiedFiles == {"cor", "row", "col", "tim", "sto.struct", "det"}
OutputFileOf == [name \in CopiedFiles |-> IF name = "cor" THEN "core" ELSE name]

CopyReference ==
    /\ pc = "copy_reference"
    /\ files' = [files EXCEPT !.output_directory =
                    [name \in DOMAIN OutputFileOf |->
                        files.scenario_directory[
                            ScenarioFile(OutputFileOf[name], reference_scenario)]]]
    /\ pc' = "merge_sto"
    /\ UNCHANGED <<args, model, loc, ret>>


\* --- lines 1087-1100: the merged .sto file
RECURSIVE ScenarioStoFiles(_)
ScenarioStoFiles(k) ==
    IF k > Len(scenarios) THEN <<>>
    ELSE files.scenario_directory[ScenarioFile("sto", scenarios[k])]
           \o ScenarioStoFiles(k + 1)

\* a slip: only the reference scenario's file is copied
MergedSto_reference_only ==
    <<[line |-> "STOCH"], [line |-> "BLOCKS DISCRETE REPLACE"]>>
      \o files.scenario_directory[ScenarioFile("sto", reference_scenario)]
      \o <<[line |-> "ENDATA"]>>

MergedSto ==
    <<[line |-> "STOCH"], [line |-> "BLOCKS DISCRETE REPLACE"]>>
      \o ScenarioStoFiles(1)
      \o <<[line |-> "ENDATA"]>>

MergeSto ==
    /\ pc = "merge_sto"
    /\ files' = [files EXCEPT !.output_directory =
                    [name \in DOMAIN @ \cup {"sto"} |->
                        IF name = "sto" THEN MergedSto ELSE @[name]]]
    /\ loc' = [loc EXCEPT !.i = 1]
    /\ pc' = IF args.disable_consistency_checks THEN "remove_auxiliary"
             ELSE "check_row_col"
    /\ UNCHANGED <<args, model, ret>>

\* --- lines 1133-1266: the consistency checks
\* os.system('diff -q ' + a + ' ' + b): the paths are put in the command
\* line as they are, so diff compares the two files only if the shell takes
\* each path as one word; with a path of two words diff fails with status 2
DiffStatus(a, b) ==
    IF ~args.shell_safe THEN 2
    ELSE IF a = b THEN 0 ELSE 1

\* a slip: the result of the comparison is dropped
Mismatch_ignored(a, b) == FALSE

\* rc: diff's exit status where diff --help runs, filecmp.cmp otherwise
Mismatch(a, b) ==
    IF args.has_diff THEN DiffStatus(a, b) # 0
    ELSE a # b

\* the file of the scenario at loc.i and the copy in the output directory
ScenarioFileAt(kind) == ScenarioFile(kind, scenarios[loc.i])
MismatchAt(kind) ==
    Mismatch(files.scenario_directory[ScenarioFileAt(kind)],
             files.output_directory[kind])

\* raise ValueError(...): the message names the copy, the scenario, the
\* scenario's file and says what to look at
MismatchError(kind, hint) ==
    [err |-> "ValueError: mismatch",
     names |-> <<kind, scenarios[loc.i], ScenarioFileAt(kind)>>,
     hint |-> hint]

\* one pass of a loop over the scenarios that compares one kind of file,
\* and the step to the loop that follows
CheckLoop(kind, hint, next) ==
    /\ IF loc.i > Len(scenarios)
       THEN /\ pc' = next
            /\ loc' = [loc EXCEPT !.i = 1]
            /\ UNCHANGED ret
       ELSE IF MismatchAt(kind)
       THEN /\ ret' = MismatchError(kind, hint)
            /\ pc' = "raised"
            /\ UNCHANGED loc
       ELSE /\ loc' = [loc EXCEPT !.i = @ + 1]
            /\ UNCHANGED <<pc, ret>>
    /\ UNCHANGED <<args, model, files>>

\* lines 1143-1188: the row file, then the col file, of each scenario
CheckRowCol ==
    /\ pc = "check_row_col"
    /\ IF loc.i > Len(scenarios)
       THEN /\ pc' = "check_tim"
            /\ loc' = [loc EXCEPT !.i = 1]
            /\ UNCHANGED ret
       ELSE IF MismatchAt("row")
       THEN /\ ret' = MismatchError("row", "declare constraint stages or report")
            /\ pc' = "raised"
            /\ UNCHANGED loc
       ELSE IF MismatchAt("col")
       THEN /\ ret' = MismatchError("col", "report")
            /\ pc' = "raised"
            /\ UNCHANGED loc
       ELSE /\ loc' = [loc EXCEPT !.i = @ + 1]
            /\ UNCHANGED <<pc, ret>>
    /\ UNCHANGED <<args, model, files>>

\* lines 1192-1214
CheckTim ==
    /\ pc = "check_tim"
    /\ CheckLoop("tim", "make the structure identical or report", "check_sto_struct")

\* lines 1218-1239
CheckStoStruct ==
    /\ pc = "check_sto_struct"
    /\ CheckLoop("sto.struct", "report", "check_det")

\* lines 1244-1266
CheckDet ==
    /\ pc = "check_det"
    /\ CheckLoop("det", "annotate the stochastic data or report", "remove_auxiliary")

\* --- lines 1268-1345: the removal of the files, the statistics
AuxiliaryFiles == {"row", "col", "sto.struct", "det"}

\* a slip: only the two files of the consistency checks are removed
RemovedAuxiliary_checks_only == {"sto.struct", "det"}

RemovedAuxiliary == AuxiliaryFiles

Remove(directory, names) == [name \in DOMAIN directory \ names |-> directory[name]]

RemoveAuxiliary ==
    /\ pc = "remove_auxiliary"
    /\ files' = IF args.keep_auxiliary_files THEN files
                ELSE [files EXCEPT !.output_directory = Remove(@, RemovedAuxiliary)]
    /\ pc' = "remove_scenario_files"
    /\ UNCHANGED <<args, model, loc, ret>>

\* the per-scenario files are removed, then the directory if it is empty,
\* and the statistics are returned
RemoveScenarioFiles ==
    /\ pc = "remove_scenario_files"
    /\ files' = IF args.keep_scenario_files THEN files
                ELSE [files EXCEPT
                        !.scenario_directory = Remove(@, DOMAIN @),
                        !.scenario_files = FALSE]
    /\ ret' = [err |-> "none", names |-> <<>>,
               stats |-> [counts |-> loc.counts, scenario_count |-> Len(scenarios)]]
    /\ pc' = "returned"
    /\ UNCHANGED <<args, model, loc>>

\* --- the calls of convert_external
InitConvert ==
    /\ pc = "convert_external"
    /\ \E models \in [ScenarioNames -> ScenarioModels], covered \in Coverages,
          contains_bundles, disable_consistency_checks, keep_scenario_files,
          keep_auxiliary_files, has_diff, shell_safe \in BOOLEAN :
          args = [mode |-> "convert_external",
                  models |-> models,
                  covered |-> covered,
                  contains_bundles |-> contains_bundles,
                  disable_consistency_checks |-> disable_consistency_checks,
                  keep_scenario_files |-> keep_scenario_files,
                  keep_auxiliary_files |-> keep_auxiliary_files,
                  has_diff |-> has_diff,
                  shell_safe |-> shell_safe]
    /\ model = <<>>
    /\ loc = NoConvertLocals
    /\ files = NoFiles
    /\ ret = [err |-> "pending"]

NextConvert ==
    \/ ConvertExternalStart
    \/ ConvertScenario
    \/ InvokeFunction
    \/ InvokeFunctionRaises
    \/ CopyReference
    \/ MergeSto
    \/ CheckRowCol
    \/ CheckTim
    \/ CheckStoStruct
    \/ CheckDet
    \/ RemoveAuxiliary
    \/ RemoveScenarioFiles

SpecConvert == InitConvert /\ [][NextConvert]_vars


\* --- what the claims say of convert_external
Converting == args.mode = "convert_external"
Finished == pc \in {"returned", "raised"}
ScenariosConverted ==
    Converting /\ loc.converted = ScenarioNames /\ files.scenario_directory # <<>>
CheckedKinds == {"row", "col", "tim", "sto.struct", "det"}

\* the consistency checks were reached and the call has ended
ChecksDone ==
    /\ Converting /\ Finished
    /\ ~args.contains_bundles
    /\ ~args.disable_consistency_checks
    /\ ret.err # "RuntimeError: scenario"

\* the scenario's file of a kind is not the reference scenario's file
Differs(kind, scenario) ==
    ScenarioFileContent(kind, scenario) # ScenarioFileContent(kind, reference_scenario)
SomeFileDiffers ==
    \E kind \in CheckedKinds, scenario \in ScenarioNames : Differs(kind, scenario)

UndeclaredValueDiffers(scenario) ==
    \E place \in Places \ args.covered :
        args.models[scenario].values[place] # args.models[reference_scenario].values[place]
DetOf(scenario) == files.scenario_directory[ScenarioFile("det", scenario)]

StoWritten == Converting /\ "sto" \in DOMAIN files.output_directory
sto_file == files.output_directory["sto"]
BLLines == {i \in DOMAIN sto_file : sto_file[i].line = "BL"}
\* the BL line of the k-th scenario and the records of its block
BlockStart(k) == 3 + (k - 1) * (1 + Cardinality(args.covered))
BlockRecords(k) == (BlockStart(k) + 1)..(BlockStart(k) + Cardinality(args.covered))

\* C19: the merged .sto file is the STOCH line, the BLOCKS DISCRETE REPLACE
\* line, one block per scenario in the order of the scenario tree (the BL
\* line with the scenario's probability, then the scenario's records) and
\* the ENDATA line; it has as many BL lines as there are scenarios.
C19_MergedSto ==
    StoWritten =>
        /\ sto_file[1].line = "STOCH"
        /\ sto_file[2].line = "BLOCKS DISCRETE REPLACE"
        /\ sto_file[Len(sto_file)].line = "ENDATA"
        /\ Len(sto_file) = 3 + Len(scenarios) * (1 + Cardinality(args.covered))
        /\ Cardinality(BLLines) = Len(scenarios)
        /\ \A k \in DOMAIN scenarios :
              /\ sto_file[BlockStart(k)].line = "BL"
              /\ sto_file[BlockStart(k)].probability = Probability(scenarios[k])
              /\ \A i \in BlockRecords(k) :
                    /\ sto_file[i].line = "record"
                    /\ sto_file[i].val = args.models[scenarios[k]].values[sto_file[i].place]
              /\ {sto_file[i].place : i \in BlockRecords(k)} = args.covered

\* a merged file of two blocks whose records differ
C19_Witness ==
    /\ StoWritten
    /\ pc = "returned"
    /\ args.covered = Places
    /\ args.models["s2"].values["coefficient"] = 2
    /\ Len(sto_file) = 11

Returned == Converting /\ pc = "returned"

\* C20 as stated: after a successful call with the default flags the output
\* directory holds the .cor, .row, .col, .tim and .sto files, and the
\* .sto.struct and .det files are gone.
C20_AsStated ==
    (Returned /\ ~args.keep_auxiliary_files /\ ~args.keep_scenario_files) =>
        /\ {"cor", "row", "col", "tim", "sto"} \subseteq DOMAIN files.output_directory
        /\ DOMAIN files.output_directory \cap {"sto.struct", "det"} = {}

\* C20: after a successful call the output directory holds the .cor, .tim
\* and .sto files; the .row, .col, .sto.struct and .det files are there if
\* and only if keep_auxiliary_files was set, and the per-scenario files if
\* and only if keep_scenario_files was set.
C20_OutputFiles ==
    Returned =>
        /\ DOMAIN files.output_directory =
              {"cor", "tim", "sto"}
                \cup (IF args.keep_auxiliary_files
                      THEN {"row", "col", "sto.struct", "det"} ELSE {})
        /\ files.output_directory["cor"] =
              ScenarioFileContent("core", reference_scenario)
        /\ files.output_directory["tim"] =
              ScenarioFileContent("tim", reference_scenario)
        /\ (files.scenario_directory # <<>>) <=> args.keep_scenario_files
        /\ files.scenario_files <=> args.keep_scenario_files

\* a successful call with the default flags, after the consistency checks
C20_Witness ==
    /\ Returned
    /\ ~args.keep_auxiliary_files
    /\ ~args.keep_scenario_files
    /\ ~args.disable_consistency_checks
    /\ DOMAIN files.output_directory = {"cor", "tim", "sto"}


\* C21: the output directory is written (the copies of the reference
\* scenario's files, the merged .sto file) and the consistency checks run
\* only when the conversion of every scenario has returned; when the
\* conversion of a scenario fails, the call fails and has written none of
\* the files of the output directory.
C21_Barrier ==
    Converting =>
        /\ loc.converted # ScenarioNames =>
              /\ files.output_directory = <<>>
              /\ pc \in {"convert_external", "invoke_function", "raised"}
        /\ (pc = "raised" /\ ret.err = "RuntimeError: scenario") =>
              files.output_directory = <<>>
        /\ files.output_directory # <<>> =>
              \A scenario \in ScenarioNames, kind \in ScenarioFileKinds :
                 \/ ScenarioFile(kind, scenario) \in DOMAIN files.scenario_directory
                 \/ pc = "returned"

\* the second scenario was converted, then the conversion of the reference
\* scenario failed
C21_Witness ==
    /\ Converting
    /\ pc = "raised"
    /\ ret.err = "RuntimeError: scenario"
    /\ loc.converted = {"s2"}
    /\ ScenarioFile("sto", "s2") \in DOMAIN files.scenario_directory
    /\ files.output_directory = <<>>


\* the words the SMPS files use for the right-hand side column and for the
\* synthetic variable of the objective constant
ReservedTokens == {"RHS", "ONE_VAR_CONSTANT"}

\* the writer gave a variable of the scenario's model a reserved word
ReservedCollision ==
    /\ External
    /\ loc.symbol_map # <<>>
    /\ \E v \in DOMAIN loc.symbol_map.byObjectVars :
          loc.symbol_map.byObjectVars[v] \in ReservedTokens

\* C22: when the writer gives a variable the symbol "RHS" or
\* "ONE_VAR_CONSTANT", the conversion of the scenario raises, and writes no
\* .col file (the file that would hold the colliding symbol).
C22_AsStated ==
    ReservedCollision =>
        /\ "col" \notin Range(files)
        /\ pc # "returned"


\* --- what the claims say of the .sto file of convert_embedded
StoBodyWritten == Embedded /\ "sto" \in Range(files)

\* the place of the model a record of the .sto file belongs to
RecordLocation(record) ==
    [component |-> IF record.row.prefix = "" THEN "objective"
                   ELSE CHOOSE con \in DOMAIN loc.constraint_symbols :
                           record.row \in Range(loc.constraint_symbols[con]),
     col |-> record.col]

\* the places of a parameter that have a record in the .sto file
RecordedPlaces(param) ==
    {l \in args.where[param] : \E k \in DOMAIN loc.sto : RecordLocation(loc.sto[k]) = l}

\* C23: in the .sto file of convert_embedded the records of a stochastic
\* parameter belong to at most one place; when a parameter is met at a second
\* place the call raises the error that names the parameter, the component
\* of the second place and the component of the first, the first place holds
\* the parameter's records and the second place has none.
C23_OneLocation ==
    StoBodyWritten =>
        /\ \A param \in args.stochastic_data : Cardinality(RecordedPlaces(param)) <= 1
        /\ ret.err = "ValueError: multiple locations" =>
              LET param == ret.names[2]
              IN /\ pc = "raised"
                 /\ Cardinality(args.where[param]) = 2
                 /\ \E first \in RecordedPlaces(param), second \in args.where[param] :
                       /\ first # second
                       /\ first.component = ret.names[4]
                       /\ second.component = ret.names[1]
                       /\ first.component = second.component => second.col = "RHS"
                       /\ Len(SelectSeq(loc.sto, LAMBDA r : RecordLocation(r) = first))
                             = Len(Distribution(param))

\* a parameter stands in a coefficient of the objective and in a
\* coefficient of a constraint: the objective's records are in the file
C23_Witness ==
    /\ StoBodyWritten
    /\ pc = "raised"
    /\ ret.err = "ValueError: multiple locations"
    /\ ret.names = <<"c2", "p1", "c2", "objective">>
    /\ Len(loc.sto) = 2


\* the records of the .sto file that belong to a constraint
RecordsOf(con) == SelectSeq(loc.sto, LAMBDA r : RecordLocation(r).component = con)

\* C24: convert_embedded does not return when a range constraint holds
\* stochastic data; the .sto file has no record of that constraint, and the
\* error raised for a range constraint names a range constraint that holds
\* stochastic data.
C24_RangeRejected ==
    StoBodyWritten =>
        /\ \A con \in StochasticConstraints :
              args.kinds[con] = "range" => pc = "raised" /\ RecordsOf(con) = <<>>
        /\ ret.err = "ValueError: range constraint" =>
              /\ Len(ret.names) = 1
              /\ ret.names[1] \in StochasticConstraints
              /\ args.kinds[ret.names[1]] = "range"

\* a parameter is the coefficient of x1 in the body of the range constraint
C24_Witness ==
    /\ StoBodyWritten
    /\ args.kinds["c1"] = "range"
    /\ args.where["p1"] = {[component |-> "c1", col |-> "x1"]}
    /\ ret = [err |-> "ValueError: range constraint", names |-> <<"c1">>]
    /\ loc.sto = <<>>



\* =================================== the stage maps under an iteration order
\* The loops of map_variable_stages and map_constraint_stages run over
\* dictionaries and component iterators; here the order in which each of them
\* yields its items is an argument.
Perms(S) == {q \in DistinctSeqs(S, Cardinality(S)) : Len(q) = Cardinality(S)}

\* list.sort() and sorted(): a stable sort; less[i][j] says that the item at
\* position i compares below the item at position j
StableSort(list, less) ==
    LET pos(i) == 1 + Cardinality({j \in DOMAIN list :
                          \/ less[j][i]
                          \/ j < i /\ ~less[i][j]})
    IN [p \in DOMAIN list |-> list[CHOOSE i \in DOMAIN list : pos(i) = p]]

\* lines 202-232: the loop over the variables in the order var_order fills
\* the dictionary of a stage; the list is made over its sorted symbols
OrderedStageList(stage, var_order) ==
    LET Stored(v) == /\ args.symbolmap_byObject[v] # NoSymbol
                     /\ VarStageOf(args.scenariotree_byObject[v],
                                   args.enforce_derived_nonanticipativity) = stage
        stored == SelectSeq(var_order, Stored)
        items == [i \in DOMAIN stored |->
                    [symbol |-> args.symbolmap_byObject[stored[i]],
                     var |-> stored[i],
                     scenario_tree_id |-> args.scenariotree_byObject[stored[i]]]]
    IN StableSort(items, [i \in DOMAIN items |-> [j \in DOMAIN items |->
                 SymbolRank(items[i].symbol) < SymbolRank(items[j].symbol)]])

OrderedVariableStages(var_order) ==
    [first |-> OrderedStageList("first", var_order),
     second |-> OrderedStageList("second", var_order)]

\* a slip: the lists of aliases are left in the order of symbol_map.aliases
OrderedReverseAlias_unsorted(symbol, alias_order) ==
    SelectSeq(alias_order, LAMBDA a : a.symbol = symbol)

\* lines 106-113: reverse_alias[symbol], appended to in the order alias_order
\* of symbol_map.aliases and then sorted
OrderedReverseAlias(symbol, alias_order) ==
    LET list == SelectSeq(alias_order, LAMBDA a : a.symbol = symbol)
    IN StableSort(list, [i \in DOMAIN list |-> [j \in DOMAIN list |->
                            AliasLess(list[i], list[j])]])

\* lines 118-178: the (aliases, con) pairs are appended to the list of their
\* stage in block order, then the list of each key is sorted by its aliases
OrderedConstraintStages(stages, alias_order, key_order) ==
    LET reference_model ==
            [cons |-> [c \in Cons |-> [active |-> TRUE, body |-> BodyOf(c)]],
             fixed |-> [v \in Vars |-> FALSE]]
        StageOfCon(con) ==
            ConstraintStage(con, reference_model, args.stochastic_constraint_ids,
                            StageIds(stages.first), StageIds(stages.second))
        appended(stage) ==
            LET cons == SelectSeq(all_constraints, LAMBDA con : StageOfCon(con) = stage)
            IN [i \in DOMAIN cons |->
                   [aliases |-> OrderedReverseAlias(args.symbol_map.byObject[cons[i]],
                                                    alias_order),
                    con |-> cons[i]]]
        EntryLess(list) ==
            [i \in DOMAIN list |-> [j \in DOMAIN list |->
                AliasListLess(list[i].aliases, list[j].aliases)]]
        RECURSIVE SortKeys(_, _)
        SortKeys(map, k) ==
            IF k > Len(key_order) THEN map
            ELSE SortKeys([map EXCEPT ![key_order[k]] =
                               StableSort(@, EntryLess(map[key_order[k]]))], k + 1)
    IN SortKeys([key \in {"first", "second"} |-> appended(key)], 1)

\* lines 549-624: the lines of .col, .row and the implicit .tim
OrderedStructureFiles(variable_stages, constraint_stages) ==
    [col |-> [i \in DOMAIN variable_stages.first |-> variable_stages.first[i].symbol]
               \o [i \in DOMAIN variable_stages.second |-> variable_stages.second[i].symbol]
               \o <<"ONE_VAR_CONSTANT">>,
     row |-> <<RowLine(args.symbol_map.byObject["objective"])>>
               \o RowSymbols(constraint_stages.first)
               \o RowSymbols(constraint_stages.second)
               \o <<[prefix |-> "c_e_", symbol |-> "ONE_VAR_CONSTANT"]>>,
     tim |-> IF \/ variable_stages.first = <<>>
                \/ variable_stages.second = <<>>
                \/ constraint_stages.second = <<>>
             THEN <<"IndexError">>
             ELSE <<[col |-> variable_stages.first[1].symbol,
                     row |-> RowLine(args.symbol_map.byObject["objective"]),
                     period |-> "TIME1"],
                    [col |-> variable_stages.second[1].symbol,
                     row |-> constraint_stages.second[1].aliases[1],
                     period |-> "TIME2"]>>]

\* the three files of one conversion under the given iteration orders
StructureFilesUnder(var_order, alias_order, key_order) ==
    LET variable_stages == OrderedVariableStages(var_order)
    IN OrderedStructureFiles(variable_stages,
           OrderedConstraintStages(variable_stages, alias_order, key_order))

\* --- the conversions: a model, a symbol map, and the iteration orders
InitOrder ==
    /\ pc = "map_variable_stages"
    /\ \E kind1 \in {"eq", "range"},
          tree \in [Vars -> {"id_standard", "id_leaf"}],
          \* the symbols in the order of the variables, or in the reverse order
          symbols \in {[v \in Vars |-> SymbolOrder[v + 2]],
                       [v \in Vars |-> SymbolOrder[NumVars + 3 - v]]},
          stochastic \in {{}, {"c1"}},
          var_order \in Perms(Vars), key_order \in Perms({"first", "second"}) :
          LET symbol_map == ConSymbolMap([c \in Cons |-> IF c = "c1" THEN kind1 ELSE "le"])
          IN \E alias_order \in Perms(symbol_map.aliases) :
                args = [mode |-> "orders",
                        body1 |-> <<1>>,
                        symbolmap_byObject |-> [v \in Vars |-> symbols[v]],
                        scenariotree_byObject |-> tree,
                        enforce_derived_nonanticipativity |-> FALSE,
                        symbol_map |-> [byObject |->
                                           [c \in Cons \cup {"objective"} |-> c],
                                        aliases |-> symbol_map.aliases],
                        stochastic_constraint_ids |-> stochastic,
                        var_order |-> var_order,
                        alias_order |-> alias_order,
                        key_order |-> key_order]
    /\ loc = [variable_stages |-> <<>>, constraint_stages |-> <<>>]
    /\ ret = [err |-> "pending"]
    /\ model = <<>>
    /\ files = <<>>

MapVariableStagesInOrder ==
    /\ pc = "map_variable_stages"
    /\ loc' = [loc EXCEPT !.variable_stages = OrderedVariableStages(args.var_order)]
    /\ pc' = "map_constraint_stages"
    /\ UNCHANGED <<args, ret, model, files>>

MapConstraintStagesInOrder ==
    /\ pc = "map_constraint_stages"
    /\ loc' = [loc EXCEPT !.constraint_stages =
                   OrderedConstraintStages(loc.variable_stages,
                                           args.alias_order, args.key_order)]
    /\ pc' = "write_structure"
    /\ UNCHANGED <<args, ret, model, files>>

WriteStructureInOrder ==
    /\ pc = "write_structure"
    /\ ret' = OrderedStructureFiles(loc.variable_stages, loc.constraint_stages)
    /\ files' = <<"col", "row", "tim">>
    /\ pc' = "written"
    /\ UNCHANGED <<args, loc, model>>

NextOrder ==
    \/ MapVariableStagesInOrder
    \/ MapConstraintStagesInOrder
    \/ WriteStructureInOrder

SpecOrder == InitOrder /\ [][NextOrder]_vars

\* C25: the lines of .row, .col and .tim that a conversion writes are the
\* lines it writes under every other iteration order of the variables, of
\* the aliases of the symbol map and of the keys of the stage map: they
\* depend on the model, the scenario tree and the symbol map only.
C25_OrderIndependent ==
    pc = "written" =>
        \A var_order \in Perms(Vars), key_order \in Perms({"first", "second"}),
           alias_order \in Perms(args.symbol_map.aliases) :
           StructureFilesUnder(var_order, alias_order, key_order) = ret

\* a range constraint whose upper alias comes first in symbol_map.aliases,
\* the variables met in descending order, the second stage's key first
C25_Witness ==
    /\ pc = "written"
    /\ args.var_order[1] = NumVars
    /\ args.key_order[1] = "second"
    /\ args.alias_order[1] = [prefix |-> "r_u_", symbol |-> "c1"]
    /\ Len(ret.row) = 5
    /\ Len(ret.tim) = 2



\* ====================== pyomo/core/kernel/conic.py: check_convexity_conditions
\* A variable is its domain type and its bounds; a bound is None or a number.
\* alpha is held in halves (1 stands for 0.5), None when it has no value.
DomainTypes == {"continuous", "integer"}
LowerBounds == {None, "-1", "0"}
UpperBounds == {None, "0", "1"}
Alphas == {None, "0", "1", "2"}
BoundValue(bound) == IF bound = "-1" THEN -1 ELSE IF bound = "0" THEN 0 ELSE 1
AlphaHalves(alpha) == IF alpha = "0" THEN 0 ELSE IF alpha = "1" THEN 1 ELSE 2

is_continuous(v) == v.domain_type = "continuous"
has_lb(v) == v.lb # None
has_ub(v) == v.ub # None

\* a slip: relax waives the bound condition with the domain condition
quadratic_relax_waives_bounds(c, relax) ==
    \/ relax
    \/ /\ is_continuous(c.r) /\ \A i \in DOMAIN c.x : is_continuous(c.x[i])
       /\ has_lb(c.r) /\ BoundValue(c.r.lb) >= 0

\* lines 160-168
quadratic(c, relax) ==
    /\ relax \/ (is_continuous(c.r) /\ \A i \in DOMAIN c.x : is_continuous(c.x[i]))
    /\ has_lb(c.r) /\ BoundValue(c.r.lb) >= 0

\* lines 236-246
rotated_quadratic(c, relax) ==
    /\ relax \/ (/\ is_continuous(c.r1)
                  /\ is_continuous(c.r2)
                  /\ \A i \in DOMAIN c.x : is_continuous(c.x[i]))
    /\ has_lb(c.r1) /\ BoundValue(c.r1.lb) >= 0
    /\ has_lb(c.r2) /\ BoundValue(c.r2.lb) >= 0

\* lines 312-322
primal_exponential(c, relax) ==
    /\ relax \/ (is_continuous(c.x1) /\ is_continuous(c.x2) /\ is_continuous(c.r))
    /\ has_lb(c.x1) /\ BoundValue(c.x1.lb) >= 0
    /\ has_lb(c.r) /\ BoundValue(c.r.lb) >= 0

\* lines 401-413: 0 < alpha < 1, alpha in halves
primal_power(c, relax) ==
    /\ relax \/ (/\ is_continuous(c.r1)
                  /\ is_continuous(c.r2)
                  /\ \A i \in DOMAIN c.x : is_continuous(c.x[i]))
    /\ has_lb(c.r1) /\ BoundValue(c.r1.lb) >= 0
    /\ has_lb(c.r2) /\ BoundValue(c.r2.lb) >= 0
    /\ c.alpha # None /\ 0 < AlphaHalves(c.alpha) /\ AlphaHalves(c.alpha) < 2

\* lines 480-490
dual_exponential(c, relax) ==
    /\ relax \/ (is_continuous(c.x1) /\ is_continuous(c.x2) /\ is_continuous(c.r))
    /\ has_ub(c.x2) /\ BoundValue(c.x2.ub) <= 0
    /\ has_lb(c.r) /\ BoundValue(c.r.lb) >= 0

\* lines 571-583
dual_power(c, relax) ==
    /\ relax \/ (/\ is_continuous(c.r1)
                  /\ is_continuous(c.r2)
                  /\ \A i \in DOMAIN c.x : is_continuous(c.x[i]))
    /\ has_lb(c.r1) /\ BoundValue(c.r1.lb) >= 0
    /\ has_lb(c.r2) /\ BoundValue(c.r2.lb) >= 0
    /\ c.alpha # None /\ 0 < AlphaHalves(c.alpha) /\ AlphaHalves(c.alpha) < 2

\* the method of the constraint's class
check_convexity_conditions(c, relax) ==
    IF c.class = "quadratic" THEN quadratic(c, relax)
    ELSE IF c.class = "rotated_quadratic" THEN rotated_quadratic(c, relax)
    ELSE IF c.class = "primal_exponential" THEN primal_exponential(c, relax)
    ELSE IF c.class = "primal_power" THEN primal_power(c, relax)
    ELSE IF c.class = "dual_exponential" THEN dual_exponential(c, relax)
    ELSE dual_power(c, relax)

\* --- the constraints the method is called on
Variables == [domain_type : DomainTypes, lb : LowerBounds, ub : UpperBounds]

\* a variable whose upper bound plays no part in any condition
LowerBounded == {v \in Variables : v.ub = None}

\* x is a tuple of variables: here of no variable or of one
Tuples == {<<>>} \cup {<<v>> : v \in LowerBounded}

ConicConstraints ==
    [class : {"quadratic"}, x : Tuples, r : LowerBounded]
      \cup [class : {"rotated_quadratic"}, x : Tuples, r1 : LowerBounded, r2 : LowerBounded]
      \cup [class : {"primal_exponential"}, x1 : LowerBounded, x2 : LowerBounded,
                                            r : LowerBounded]
      \cup [class : {"primal_power", "dual_power"}, x : Tuples, r1 : LowerBounded,
                                                    r2 : LowerBounded, alpha : Alphas]
      \cup [class : {"dual_exponential"}, x1 : LowerBounded, x2 : Variables,
                                          r : LowerBounded]

InitConic ==
    /\ pc = "check_convexity_conditions"
    /\ args \in [self : ConicConstraints, relax : BOOLEAN]
    /\ ret = [err |-> "pending"]
    /\ NoConversion

CallCheckConvexityConditions ==
    /\ pc = "check_convexity_conditions"
    /\ ret' = [err |-> "ok",
               value |-> check_convexity_conditions(args.self, args.relax)]
    /\ pc' = "returned"
    /\ UNCHANGED <<args, model, loc, files>>

NextConic == CallCheckConvexityConditions

SpecConic == InitConic /\ [][NextConic]_vars

\* --- what the claim says of check_convexity_conditions
ConicDone == pc = "returned" /\ "self" \in DOMAIN args

\* the variables of a constraint, by the name of the attribute
VariableAttrs == {"r", "r1", "r2", "x1", "x2"}
MadeContinuous(c) ==
    [attr \in DOMAIN c |->
        IF attr \in VariableAttrs THEN [c[attr] EXCEPT !.domain_type = "continuous"]
        ELSE IF attr = "x"
        THEN [i \in DOMAIN c.x |-> [c.x[i] EXCEPT !.domain_type = "continuous"]]
        ELSE c[attr]]

\* the bounds the classes document: these variables are to be >= 0 ...
NonNegative(c) ==
    IF c.class = "quadratic" THEN {"r"}
    ELSE IF c.class = "primal_exponential" THEN {"x1", "r"}
    ELSE IF c.class = "dual_exponential" THEN {"r"}
    ELSE {"r1", "r2"}
\* ... and these <= 0
NonPositive(c) == IF c.class = "dual_exponential" THEN {"x2"} ELSE {}
HasAlpha(c) == c.class \in {"primal_power", "dual_power"}

BoundMissing(c) ==
    \/ \E attr \in NonNegative(c) : c[attr].lb = None
    \/ \E attr \in NonPositive(c) : c[attr].ub = None

\* C26: for each of the six classes, check_convexity_conditions(relax=True)
\* returns what check_convexity_conditions(relax=False) returns for the same
\* constraint with every variable made continuous; it returns True only if
\* every documented bound holds and, for the power cones, 0 < alpha < 1; and
\* it returns False whenever one of these bounds is missing, whatever relax.
C26_RelaxIgnoresDomains ==
    ConicDone =>
        LET c == args.self
        IN /\ args.relax =>
                 ret.value = check_convexity_conditions(MadeContinuous(c), FALSE)
           /\ ret.value =>
                 /\ \A attr \in NonNegative(c) :
                       c[attr].lb # None /\ BoundValue(c[attr].lb) >= 0
                 /\ \A attr \in NonPositive(c) :
                       c[attr].ub # None /\ BoundValue(c[attr].ub) <= 0
                 /\ HasAlpha(c) => c.alpha = "1"
           /\ BoundMissing(c) => ~ret.value

\* a quadratic cone over an integer variable, its r bounded below by 0,
\* checked with relax=True
C26_Witness ==
    /\ ConicDone
    /\ args.relax
    /\ args.self.class = "quadratic"
    /\ args.self.x = <<[domain_type |-> "integer", lb |-> None, ub |-> None]>>
    /\ args.self.r.lb = "0"
    /\ ret.value
    /\ ~check_convexity_conditions(args.self, FALSE)



\* ============================== the scenario files of concurrent conversions
\* invoke_function runs _convert_external_setup once per scenario, on workers
\* that run side by side.  A file name is the sequence of the parts that the
\* code joins with ".": basename, the parts of the kind, the scenario's name.
\* the names a scenario tree may give two scenarios, as their parts
ScenarioNameChoices == {<<"s1">>, <<"s2">>, <<"struct", "s1">>, <<"det", "s1">>}

\* lines 403, 510, 552, 571, 597, 680, 682, 952: what stands between
\* basename and scenario.name (file_format is "mps")
KindParts(kind) ==
    IF kind = "setup" THEN <<"setup", "mps">>
    ELSE IF kind = "core" THEN <<"mps">>
    ELSE IF kind = "sto.struct" THEN <<"sto", "struct">>
    ELSE IF kind = "det" THEN <<"mps", "det">>
    ELSE <<kind>>

ScenarioPath(kind, name) == <<"basename">> \o KindParts(kind) \o name

\* the files a conversion opens for writing, in the order of the code; the
\* .sto.struct and .sto files are open together
WriteSteps ==
    <<{"setup"}, {"core"}, {"col"}, {"row"}, {"tim"}, {"sto.struct", "sto"}, {"det"}>>

\* the directory after the conversion of a scenario has done a step
WrittenOver(directory, name, step) ==
    LET paths == {ScenarioPath(kind, name) : kind \in WriteSteps[step]}
    IN [path \in DOMAIN directory \cup paths |->
           IF path \in paths
           THEN [kind |-> CHOOSE kind \in WriteSteps[step] :
                             ScenarioPath(kind, name) = path,
                 scenario |-> name]
           ELSE directory[path]]

\* lines 1093-1099: the merged .sto file is what the .sto file of each
\* scenario holds, in the order of scenario_tree.scenarios
MergedFrom(directory, names) ==
    [i \in DOMAIN names |-> directory[ScenarioPath("sto", names[i])]]

InitWorkers ==
    /\ pc = "invoke_function"
    /\ \E first, second \in ScenarioNameChoices :
          /\ first # second
          /\ args = [mode |-> "workers", scenario_names |-> <<first, second>>]
    /\ loc = [step |-> <<0, 0>>]
    /\ files = <<>>
    /\ ret = [err |-> "pending"]
    /\ model = <<>>

\* a worker does the next step of the conversion of its scenario
WorkerWrites ==
    /\ pc = "invoke_function"
    /\ \E i \in DOMAIN args.scenario_names :
          /\ loc.step[i] < Len(WriteSteps)
          /\ files' = WrittenOver(files, args.scenario_names[i], loc.step[i] + 1)
          /\ loc' = [loc EXCEPT !.step[i] = @ + 1]
    /\ UNCHANGED <<pc, args, ret, model>>

\* every conversion has returned: convert_external merges the .sto files
MergeWorkerFiles ==
    /\ pc = "invoke_function"
    /\ \A i \in DOMAIN args.scenario_names : loc.step[i] = Len(WriteSteps)
    /\ ret' = [err |-> "none", sto |-> MergedFrom(files, args.scenario_names)]
    /\ pc' = "returned"
    /\ UNCHANGED <<args, loc, files, model>>

NextWorkers == WorkerWrites \/ MergeWorkerFiles

SpecWorkers == InitWorkers /\ [][NextWorkers]_vars

\* the directory when the conversions run one after the other in the order
\* of scenario_tree.scenarios
RECURSIVE SequentialFiles(_, _, _)
SequentialFiles(directory, i, step) ==
    IF i > Len(args.scenario_names) THEN directory
    ELSE IF step > Len(WriteSteps) THEN SequentialFiles(directory, i + 1, 1)
    ELSE SequentialFiles(WrittenOver(directory, args.scenario_names[i], step), i, step + 1)

\* C27: whatever the order in which the workers do their steps, when
\* convert_external merges, the scenario files and the merged .sto file are
\* those of the conversions run one after the other, and each scenario file
\* holds what the conversion of its own scenario wrote.
C27_AsStated ==
    (pc = "returned" /\ args.mode = "workers") =>
        /\ files = SequentialFiles(<<>>, 1, 1)
        /\ ret.sto = MergedFrom(SequentialFiles(<<>>, 1, 1), args.scenario_names)
        /\ \A i \in DOMAIN args.scenario_names : ret.sto[i].scenario = args.scenario_names[i]


\* --- what the claims say of the order of the writes of a scenario
\* every bound, coefficient and constant is as it was before the call
NothingReplaced ==
    /\ model.lower = OriginalLower
    /\ model.upper = OriginalUpper
    /\ \A con \in Cons : /\ model.lower[con] # <<_deterministic_check_value>>
                         /\ model.upper[con] # <<_deterministic_check_value>>
    /\ \A c \in DOMAIN model.repn : model.repn[c] = GeneratedRepn(c)
    /\ loc.modified_constraint_lb = <<>>
    /\ loc.modified_constraint_ub = <<>>
    /\ loc.sto = <<>>

\* the place a record of the .sto file stands for holds the check value,
\* or 0 where it is a constant
ReplacedAt(record) ==
    IF record.row.prefix = ""
    THEN \/ /\ record.col = "ONE_VAR_CONSTANT"
            /\ model.repn["objective"].constant = <<0>>
         \/ \E i \in DOMAIN model.repn["objective"].variables :
               /\ loc.symbol_map.byObjectVars[model.repn["objective"].variables[i]]
                     = record.col
               /\ model.repn["objective"].linear[i] = _deterministic_check_value
    ELSE LET con == CHOOSE c \in DOMAIN loc.constraint_symbols :
                        record.row \in Range(loc.constraint_symbols[c])
         IN IF record.col = "RHS"
            THEN /\ model.repn[con].constant = <<0>>
                 /\ record.row.prefix \in {"c_e_", "c_l_", "r_l_"} =>
                       model.lower[con] = <<_deterministic_check_value>>
                 /\ record.row.prefix \in {"c_e_", "c_u_", "r_u_"} =>
                       model.upper[con] = <<_deterministic_check_value>>
            ELSE \E i \in DOMAIN model.repn[con].variables :
                    /\ loc.symbol_map.byObjectVars[model.repn[con].variables[i]]
                          = record.col
                    /\ model.repn[con].linear[i] = _deterministic_check_value

ScenarioFileOrder == <<"setup", "core", "col", "row", "tim", "sto.struct", "sto", "det">>

\* C28: the files of a scenario are written in the order setup file, ordered
\* core file, ..., deterministic file; until the ordered core file is written
\* no bound, coefficient or constant of the model has been replaced, so that
\* the core file holds no check value; and when the deterministic file is
\* written every place that has a record in the .sto file has been replaced.
C28_WriteOrder ==
    External =>
        /\ \E n \in 0..Len(ScenarioFileOrder) : files = SubSeq(ScenarioFileOrder, 1, n)
        /\ ("core" \notin Range(files) \/ pc = "write_structure") => NothingReplaced
        /\ "det" \in Range(files) =>
              /\ pc \in {"reset_bounds", "finally", "returned"}
              /\ pc = "reset_bounds" =>
                    \A k \in DOMAIN loc.sto : ReplacedAt(loc.sto[k])

\* the deterministic file was just written for a scenario with records of a
\* bound, of a coefficient of a constraint and of the objective
C28_Witness ==
    /\ External
    /\ pc = "reset_bounds"
    /\ files = ScenarioFileOrder
    /\ \E k \in DOMAIN loc.sto : loc.sto[k].col = "RHS"
    /\ \E k \in DOMAIN loc.sto : loc.sto[k].col # "RHS" /\ loc.sto[k].row.prefix # ""
    /\ \E k \in DOMAIN loc.sto : loc.sto[k].row.prefix = ""


\* C29: the records of the .sto file of a scenario (the lines after the BL
\* line) and the lines of its .sto.struct file go one with one in the same
\* order, each line naming the column and the row of its record, and there
\* are as many as stochastic_rhs_count + stochastic_matrix_count +
\* stochastic_cost_count.
C29_StoStruct ==
    (External /\ "sto" \in Range(files)) =>
        /\ Len(loc.struct) = Len(loc.sto)
        /\ \A k \in DOMAIN loc.sto :
              loc.struct[k] = [col |-> loc.sto[k].col, row |-> loc.sto[k].row]
        /\ Len(loc.sto) = loc.stochastic_rhs_count + loc.stochastic_matrix_count
                             + loc.stochastic_cost_count

\* a returned conversion with a record of each of the three kinds
C29_Witness ==
    /\ External
    /\ pc = "returned"
    /\ loc.stochastic_rhs_count > 1
    /\ loc.stochastic_matrix_count > 1
    /\ loc.stochastic_cost_count > 1
    /\ Len(loc.struct) = Len(loc.sto)


\* the stage maps of the first symbol map have just been made
StagesMapped == External /\ pc = "write_ordered"

\* C30: an active constraint of the model that has an entry in the
\* stochastic rhs or the stochastic matrix annotation is in the second-stage
\* list of map_constraint_stages and not in the first-stage list, whatever
\* the variables of its body; when one of the two annotations is a default
\* one, every active constraint is second-stage and the first-stage list is
\* empty.
C30_StochasticSecondStage ==
    StagesMapped =>
        /\ \A con \in Range(all_constraints) :
              con \in loc.stochastic_constraint_ids =>
                 /\ con \in loc.secondstage_constraint_ids
                 /\ \E i \in DOMAIN ConstraintStages.second :
                       ConstraintStages.second[i].con = con
                 /\ \A i \in DOMAIN ConstraintStages.first :
                       ConstraintStages.first[i].con # con
        /\ (args.rhs.decl = "default" \/ args.matrix.decl = "default") =>
              /\ ConstraintStages.first = <<>>
              /\ loc.secondstage_constraint_ids = Range(all_constraints)

\* the first constraint holds the first-stage variable only and has an
\* entry in the stochastic rhs annotation
C30_Witness ==
    /\ StagesMapped
    /\ args.body1 = <<1>>
    /\ args.matrix.decl = "none"
    /\ loc.stochastic_constraint_ids = {"c1"}
    /\ "c1" \in loc.secondstage_constraint_ids

====
